---- MODULE Spec2Model ----
(***************************************************************************)
(* Model of lobster-local's session core:                                  *)
(*   - DataManager  (src/lobster/core/data_manager.py): current dataset,   *)
(*     AnnData projection, bounded plot collection, processing log and     *)
(*     tool-usage history;                                                 *)
(*   - AgentClient  (src/lobster/core/client.py): conversation history,    *)
(*     non-streaming query and the response extraction over debug events.  *)
(*                                                                         *)
(* Python values are records tagged with a "kind" field; None is the       *)
(* record None.  Strings whose characters matter (message contents) are    *)
(* sequences of one-character strings.  Timestamps are not modelled.       *)
(***************************************************************************)
EXTENDS Integers, Sequences, FiniteSets, TLC

VARIABLES
    current_data,        \* DataManager.current_data
    current_metadata,    \* DataManager.current_metadata (set of items)
    adata,               \* DataManager.adata
    latest_plots,        \* DataManager.latest_plots
    plot_counter,        \* DataManager.plot_counter
    processing_log,      \* DataManager.processing_log
    tool_usage_history,  \* DataManager.tool_usage_history
    max_plots_history,   \* DataManager.max_plots_history
    messages,            \* AgentClient.messages
    metadata,            \* AgentClient.metadata (its keys)
    session_id,          \* AgentClient.session_id
    stream,              \* the generator a streaming query returned
    files,               \* the files written under the workspace
    heap,                \* the parameter dicts the caller holds, by address
    parked,              \* the session that is not running, as it was left
    threads,             \* the add_plot calls in progress on the store, one per thread
    events,              \* the event list handed to _extract_response
    response,            \* what _extract_response returned for events
    last,                \* history: the last call, its arguments and outcome
    added,               \* history: entries added since the last clear_plots
    issued               \* history: every id add_plot has returned

vars == <<current_data, current_metadata, adata, latest_plots, plot_counter,
          processing_log, tool_usage_history, max_plots_history, messages,
          metadata, session_id, stream, files, heap, parked, threads, events, response,
          last, added, issued>>

storeVars == <<current_data, current_metadata, adata, latest_plots,
               plot_counter, processing_log, tool_usage_history,
               max_plots_history, added, issued>>

(***************************************************************************)
(* Bounds of the exploration.                                              *)
(***************************************************************************)
MaxRows == 2
MaxCols == 1
MaxLog == 2
MaxAdds == 1
MaxCounter == 52
MaxMsgs == 2
MaxEvents == 2
MaxTurns == 2
MaxShown == 6
MaxStreamEvents == 2
MaxExportPlots == 2
MaxTools == 2
MaxFiles == 2
MaxNodeMsgs == 2
MaxThreadCalls == 2

(***************************************************************************)
(* Python values.                                                          *)
(***************************************************************************)
None == [kind |-> "None"]

\* A column of a DataFrame is modelled by its dtype and by whether it holds
\* missing values; the cell values themselves are not modelled.
Column(dtype, has_nan) == [dtype |-> dtype, has_nan |-> has_nan]

InputColumns ==
    {Column("float64", FALSE), Column("float64", TRUE), Column("object", FALSE)}

RECURSIVE SeqsUpTo(_, _)
SeqsUpTo(S, n) ==
    IF n = 0 THEN {<<>>}
    ELSE LET shorter == SeqsUpTo(S, n - 1)
         IN  shorter \cup {Append(s, x) : s \in {t \in shorter : Len(t) = n - 1}, x \in S}

DataFrame(nrows, columns) ==
    [kind |-> "DataFrame", nrows |-> nrows, columns |-> columns]

\* Every DataFrame of at most MaxRows rows and MaxCols columns, the
\* zero-row and the zero-column ones included.
DataFrames ==
    {DataFrame(r, cs) : r \in 0..MaxRows, cs \in SeqsUpTo(InputColumns, MaxCols)}

NotADataFrame == [kind |-> "list"]

Dict(items) == [kind |-> "dict", items |-> items]

Metadatas ==
    {None, Dict({}),
     Dict({[key |-> "organism", vkind |-> "str"],
           [key |-> "genes", vkind |-> "list"]})}

Figure == [kind |-> "Figure", layout_title |-> None]
NotAFigure == [kind |-> "dict", items |-> {}]

Str(s) == [kind |-> "str", s |-> s]
PyInt(v) == [kind |-> "int", v |-> v]

\* no streaming query has been made
NoStream == [pc |-> "none"]

\* no second session has been constructed
NoSession == [id |-> "none"]

\* a thread that is not inside add_plot
Idle == [pc |-> "idle", plot_id |-> None, calls |-> 0]

\* no thread has been started on the store
NoThreads == [mode |-> "none", lock |-> 0, t |-> <<Idle, Idle>>]

Truthy(v) == v # None /\ (v.kind = "str" => v.s # "")

(***************************************************************************)
(* DataManager: dataset                                                    *)
(***************************************************************************)
shape(df) == <<df.nrows, Len(df.columns)>>

\* has_data(): a DataFrame with both dimensions positive
HasDataOf(d) ==
    /\ d # None
    /\ d.kind = "DataFrame"
    /\ shape(d)[1] > 0
    /\ shape(d)[2] > 0

\* a has_data that looks at the derived matrix
has_data_by_matrix == adata # None

has_data == HasDataOf(current_data)

\* data[col].dtype == 'object'
IsObjectColumn(col) == col.dtype = "object"

\* pd.to_numeric(col, errors='coerce'): a numeric column in which the
\* unconvertible cells are NaN
to_numeric(col) == Column("float64", TRUE)

\* a coercion that drops the object columns instead of converting them
CoerceColumnsDropping(df) ==
    [df EXCEPT !.columns = SelectSeq(df.columns, LAMBDA col : ~IsObjectColumn(col))]

\* the column loop of set_data
CoerceColumns(df) ==
    [df EXCEPT !.columns =
        [c \in DOMAIN df.columns |->
            IF IsObjectColumn(df.columns[c]) THEN to_numeric(df.columns[c])
            ELSE df.columns[c]]]

\* data.fillna(0)
fillna(df) ==
    [df EXCEPT !.columns =
        [c \in DOMAIN df.columns |-> [df.columns[c] EXCEPT !.has_nan = FALSE]]]

\* the entries of metadata that _create_anndata copies into adata.uns
ScalarItems(md) == {it \in md : it.vkind \in {"str", "int", "float", "bool"}}

\* what sc.AnnData(...) can do inside _create_anndata: build the object,
\* fail so that the 2x2 dummy is built, or fail twice
AnnDataOutcomes == {"ok", "fallback", "none"}

_create_anndata(data, md, old, outcome) ==
    IF ~HasDataOf(data) THEN old
    ELSE IF outcome = "ok"
         THEN [kind |-> "AnnData", n_obs |-> shape(data)[1], n_vars |-> shape(data)[2],
               X |-> "values", uns |-> ScalarItems(md)]
    ELSE IF outcome = "fallback"
         THEN [kind |-> "AnnData", n_obs |-> 2, n_vars |-> 2, X |-> "zeros", uns |-> {}]
    ELSE None

\* get_data_summary(): the fields the properties below read
get_data_summary ==
    IF ~has_data THEN [status |-> "No data loaded"]
    ELSE [status |-> "Data loaded",
          shape |-> shape(current_data),
          metadata_keys |-> {it.key : it \in current_metadata},
          processing_log |-> SubSeq(processing_log,
                                    IF Len(processing_log) > 5 THEN Len(processing_log) - 4 ELSE 1,
                                    Len(processing_log))]

\* the validation at the head of set_data
SetDataRaises(data) ==
    IF data = None THEN TRUE
    ELSE IF data.kind # "DataFrame" THEN TRUE
    ELSE IF shape(data)[1] = 0 THEN TRUE
    ELSE shape(data)[2] = 0

\* a handler that forgets to drop the dataset
set_data_except_keeps ==
    /\ UNCHANGED current_data
    /\ current_metadata' = {}
    /\ adata' = None

\* the except branch of set_data, before it re-raises
set_data_except ==
    /\ current_data' = None
    /\ current_metadata' = {}
    /\ adata' = None

\* what the history keeps of set_data's argument: its kind and, for a
\* DataFrame, its dimensions
ArgOf(data) ==
    [kind |-> data.kind,
     shape |-> IF data.kind = "DataFrame" THEN shape(data) ELSE <<>>]

\* a set_data that starts the plot collection afresh with each dataset
set_data_clearing_plots(data, metadata_arg, outcome) ==
    /\ IF SetDataRaises(data)
       THEN /\ set_data_except
            /\ UNCHANGED processing_log
            /\ last' = [op |-> "set_data", arg |-> ArgOf(data), had_data |-> has_data,
                        raised |-> TRUE, ret |-> None]
       ELSE LET stored == fillna(CoerceColumns(data))
                md == IF Truthy(metadata_arg) /\ metadata_arg.items # {} THEN metadata_arg.items ELSE {}
            IN  /\ current_data' = stored
                /\ current_metadata' = md
                /\ adata' = _create_anndata(stored, md, adata, outcome)
                /\ processing_log' = Append(processing_log,
                                            [rows |-> shape(stored)[1], cols |-> shape(stored)[2]])
                /\ last' = [op |-> "set_data", arg |-> ArgOf(data), had_data |-> has_data,
                            raised |-> FALSE, ret |-> stored]
    /\ latest_plots' = <<>>
    /\ UNCHANGED <<plot_counter, tool_usage_history, max_plots_history,
                   messages, metadata, session_id, stream, files, heap, parked, threads, events, response, added, issued>>

\* set_data(data, metadata)
set_data(data, metadata_arg, outcome) ==
    /\ IF SetDataRaises(data)
       THEN /\ set_data_except
            /\ UNCHANGED processing_log
            /\ last' = [op |-> "set_data", arg |-> ArgOf(data), had_data |-> has_data,
                        raised |-> TRUE, ret |-> None]
       ELSE LET stored == fillna(CoerceColumns(data))
                md == IF Truthy(metadata_arg) /\ metadata_arg.items # {} THEN metadata_arg.items ELSE {}
            IN  /\ current_data' = stored
                /\ current_metadata' = md
                /\ adata' = _create_anndata(stored, md, adata, outcome)
                /\ processing_log' = Append(processing_log,
                                            [rows |-> shape(stored)[1], cols |-> shape(stored)[2]])
                /\ last' = [op |-> "set_data", arg |-> ArgOf(data), had_data |-> has_data,
                            raised |-> FALSE, ret |-> stored]
    /\ UNCHANGED <<latest_plots, plot_counter, tool_usage_history, max_plots_history,
                   messages, metadata, session_id, stream, files, heap, parked, threads, events, response, added, issued>>

(***************************************************************************)
(* DataManager: plots                                                      *)
(***************************************************************************)
\* str(n) for n >= 0: the decimal digits, most significant first
RECURSIVE Digits(_)
Digits(n) == IF n < 10 THEN <<n>> ELSE Append(Digits(n \div 10), n % 10)

\* f"plot_{self.plot_counter}"
PlotId(n) == [kind |-> "str", prefix |-> "plot_", digits |-> Digits(n)]

\* an eviction that removes nothing
PopNothing(s) == s

\* an eviction that removes the newest entry
PopLast(s) == SubSeq(s, 1, Len(s) - 1)

\* self.latest_plots.pop(0)
Pop0(s) == SubSeq(s, 2, Len(s))

\* an add_plot that takes the next id before it looks at its argument
add_plot_counting_first(plot, title, source) ==
    /\ IF plot.kind # "Figure"
       THEN /\ plot_counter' = plot_counter + 1
            /\ UNCHANGED <<latest_plots, added, issued>>
            /\ last' = [op |-> "add_plot", plot |-> plot, ret |-> None]
       ELSE LET fig == IF Truthy(title) THEN [plot EXCEPT !.layout_title = title] ELSE plot
                plot_id == PlotId(plot_counter + 1)
                plot_entry == [id |-> plot_id,
                               figure |-> fig,
                               title |-> IF Truthy(title) THEN title ELSE Str("Untitled"),
                               source |-> source]
                appended == Append(latest_plots, plot_entry)
            IN  /\ plot_counter' = plot_counter + 1
                /\ latest_plots' = IF Len(appended) > max_plots_history
                                   THEN Pop0(appended) ELSE appended
                /\ added' = Append(added, plot_entry)
                /\ issued' = Append(issued, plot_id)
                /\ last' = [op |-> "add_plot", plot |-> plot, ret |-> plot_id]
    /\ UNCHANGED <<current_data, current_metadata, adata, processing_log,
                   tool_usage_history, max_plots_history, messages, metadata, session_id, stream, files, heap, parked, threads, events, response>>

add_plot(plot, title, source) ==
    /\ IF plot.kind # "Figure"
       THEN /\ UNCHANGED <<latest_plots, plot_counter, added, issued>>
            /\ last' = [op |-> "add_plot", plot |-> plot, ret |-> None]
       ELSE LET fig == IF Truthy(title) THEN [plot EXCEPT !.layout_title = title] ELSE plot
                plot_id == PlotId(plot_counter + 1)
                plot_entry == [id |-> plot_id,
                               figure |-> fig,
                               title |-> IF Truthy(title) THEN title ELSE Str("Untitled"),
                               source |-> source]
                appended == Append(latest_plots, plot_entry)
            IN  /\ plot_counter' = plot_counter + 1
                /\ latest_plots' = IF Len(appended) > max_plots_history
                                   THEN Pop0(appended) ELSE appended
                /\ added' = Append(added, plot_entry)
                /\ issued' = Append(issued, plot_id)
                /\ last' = [op |-> "add_plot", plot |-> plot, ret |-> plot_id]
    /\ UNCHANGED <<current_data, current_metadata, adata, processing_log,
                   tool_usage_history, max_plots_history, messages, metadata, session_id, stream, files, heap, parked, threads, events, response>>

\* a clear_plots that restarts the id counter
clear_plots_resetting ==
    /\ latest_plots' = <<>>
    /\ plot_counter' = 0
    /\ added' = <<>>
    /\ last' = [op |-> "clear_plots"]
    /\ UNCHANGED <<current_data, current_metadata, adata, processing_log,
                   tool_usage_history, max_plots_history, messages, metadata, session_id, stream, files, heap, parked, threads, events, response, issued>>

clear_plots ==
    /\ latest_plots' = <<>>
    /\ added' = <<>>
    /\ last' = [op |-> "clear_plots"]
    /\ UNCHANGED <<current_data, current_metadata, adata, plot_counter, processing_log,
                   tool_usage_history, max_plots_history, messages, metadata, session_id, stream, files, heap, parked, threads, events, response, issued>>

\* the first entry with that id, as the for loop finds it
get_plot_by_id(plot_id) ==
    IF \E i \in DOMAIN latest_plots : latest_plots[i].id = plot_id
    THEN LET i == CHOOSE j \in DOMAIN latest_plots :
                      /\ latest_plots[j].id = plot_id
                      /\ \A k \in 1..(j - 1) : latest_plots[k].id # plot_id
         IN  latest_plots[i].figure
    ELSE None

\* s[start:] of Python, start counted from 0, negative from the end
PySliceFrom(s, start) ==
    LET from == IF start < 0
                THEN (IF Len(s) + start < 0 THEN 0 ELSE Len(s) + start)
                ELSE (IF start > Len(s) THEN Len(s) ELSE start)
    IN  SubSeq(s, from + 1, Len(s))

\* a get_latest_plots that slices from the front, latest_plots[:n]
get_first_plots(n) ==
    IF n = None THEN latest_plots
    ELSE SubSeq(latest_plots, 1, IF n.v < Len(latest_plots) THEN n.v ELSE Len(latest_plots))

\* n = None is the call without argument
get_latest_plots(n) ==
    IF n = None THEN latest_plots ELSE PySliceFrom(latest_plots, 0 - n.v)

(***************************************************************************)
(* DataManager: provenance                                                 *)
(***************************************************************************)
\* a parameter map is handed over either as a dict built in the call or as
\* a reference to a dict the caller keeps: Python passes the object itself
Ref(addr) == [kind |-> "ref", addr |-> addr]

\* the dict an object reference stands for now
Deref(v) == IF v.kind = "ref" THEN heap[v.addr] ELSE v

\* the record log_tool_usage builds (the timestamp is left out)
ToolUsageRecord(tool_name, parameters, description) ==
    [tool |-> tool_name, parameters |-> parameters, description |-> description]

log_tool_usage_prepending(tool_name, parameters, description) ==
    /\ tool_usage_history' = <<ToolUsageRecord(tool_name, parameters, description)>>
                                  \o tool_usage_history
    /\ last' = [op |-> "log_tool_usage",
                entry |-> ToolUsageRecord(tool_name, parameters, description),
                given |-> Deref(parameters)]
    /\ UNCHANGED <<current_data, current_metadata, adata, latest_plots, plot_counter,
                   processing_log, max_plots_history, messages, metadata, session_id, stream, files, heap, parked, threads, events, response,
                   added, issued>>

log_tool_usage(tool_name, parameters, description) ==
    /\ tool_usage_history' = Append(tool_usage_history,
                                    ToolUsageRecord(tool_name, parameters, description))
    /\ last' = [op |-> "log_tool_usage",
                entry |-> ToolUsageRecord(tool_name, parameters, description),
                given |-> Deref(parameters)]
    /\ UNCHANGED <<current_data, current_metadata, adata, latest_plots, plot_counter,
                   processing_log, max_plots_history, messages, metadata, session_id, stream, files, heap, parked, threads, events, response,
                   added, issued>>

\* a parameter value that is a list
PyList(elems) == [kind |-> "list", elems |-> elems]

\* str(x) of an int, or of a list of ints
py_str(v) ==
    IF v.kind = "int" THEN [text |-> "int", digits |-> Digits(v.v)]
    ELSE [text |-> "list", items |-> [i \in DOMAIN v.elems |-> Digits(v.elems[i])]]

\* the parameter formatting of get_technical_summary: a list or tuple of
\* more than five elements is shown as its first five and its length
param_str(param_value) ==
    IF param_value.kind = "int" THEN py_str(param_value)
    ELSE IF Len(param_value.elems) > 5
         THEN [text |-> "abbreviated",
               items |-> [i \in 1..5 |-> Digits(param_value.elems[i])],
               length |-> Digits(Len(param_value.elems))]
    ELSE py_str(param_value)

\* a summary that numbers the entries from the newest to the oldest
ToolUsageBlocksReversed ==
    [i \in 1..Len(tool_usage_history) |->
        LET entry == tool_usage_history[Len(tool_usage_history) + 1 - i]
        IN  [number |-> Digits(i),
             tool |-> entry.tool,
             description |-> entry.description,
             parameters |-> {[key |-> it.key, str |-> param_str(it.value)] :
                                it \in Deref(entry.parameters).items}]]

\* for i, entry in enumerate(self.tool_usage_history, 1): one block per
\* entry, its parameters read from the stored object when the summary is
\* generated
ToolUsageBlocks ==
    [i \in 1..Len(tool_usage_history) |->
        LET entry == tool_usage_history[i]
        IN  [number |-> Digits(i),
             tool |-> entry.tool,
             description |-> entry.description,
             parameters |-> {[key |-> it.key, str |-> param_str(it.value)] :
                                it \in Deref(entry.parameters).items}]]

\* get_technical_summary(): the title, then the sections that apply, each a
\* heading with its body (the memory usage line is left out)
get_technical_summary ==
    <<[heading |-> "# Technical Summary"]>>
        \o (IF has_data
             THEN <<[heading |-> "## Data Information",
                     rows |-> Digits(shape(current_data)[1]),
                     columns |-> Digits(shape(current_data)[2]),
                     metadata_keys |-> {it.key : it \in current_metadata}]>>
             ELSE <<>>)
        \o (IF processing_log # <<>>
             THEN <<[heading |-> "## Processing Log", lines |-> processing_log]>>
             ELSE <<>>)
        \o (IF tool_usage_history # <<>>
             THEN <<[heading |-> "## Tool Usage History", blocks |-> ToolUsageBlocks]>>
             ELSE <<>>)

(***************************************************************************)
(* DataManager: export package                                             *)
(***************************************************************************)
\* a write that fails when it is attempted: op names the write, plot the
\* position in latest_plots of the plot it belongs to (0 for the others)
Fault(op, plot) == [op |-> op, plot |-> plot]

Path(dir, name) == [kind |-> "Path", dir |-> dir, name |-> name]

\* open(path, "w") followed by the write: the file replaces what was there
WriteFile(fs, path, content) ==
    {f \in fs : f.path # path} \cup {[path |-> path, content |-> content]}

\* whitespace, and the strip functions of str
IsSpace(c) == c \in {" ", "\t", "\n"}

RECURSIVE lstrip(_)
lstrip(s) == IF s # <<>> /\ IsSpace(Head(s)) THEN lstrip(Tail(s)) ELSE s

RECURSIVE rstrip(_)
rstrip(s) ==
    IF s # <<>> /\ IsSpace(s[Len(s)]) THEN rstrip(SubSeq(s, 1, Len(s) - 1)) ELSE s

\* the characters of the titles that plots carry
TitleChars(title) ==
    IF title.s = "Untitled" THEN <<"U", "n", "t", "i", "t", "l", "e", "d">>
    ELSE IF title.s = "QC 1: a/b " THEN <<"Q", "C", " ", "1", ":", " ", "a", "/", "b", " ">>
    ELSE <<>>

\* c.isalnum() on the characters above
IsAlnum(c) == c \in {"U", "n", "t", "i", "l", "e", "d", "Q", "C", "1", "a", "b"}

\* "".join(c for c in plot_title if c.isalnum() or c in [' ', '_', '-'])
\* .rstrip().replace(' ', '_')
safe_title(plot_title) ==
    LET kept == rstrip(SelectSeq(plot_title,
                                 LAMBDA c : IsAlnum(c) \/ c \in {" ", "_", "-"}))
    IN  [i \in DOMAIN kept |-> IF kept[i] = " " THEN "_" ELSE kept[i]]

\* f"{plot_id}_{safe_title}" if safe_title else plot_id
filename_base(plot_entry) ==
    [id |-> plot_entry.id, safe_title |-> safe_title(TitleChars(plot_entry.title))]

\* a file of the staging directory: arcname dir/<filename_base><name> for
\* a file of a plot, dir/<name> for the others (plot is None)
Staged(dir, plot, name) == [dir |-> dir, plot |-> plot, name |-> name]

\* what one iteration of the plots loop leaves in the staging directory:
\* the files written before the first write that fails
PlotFiles(i, faults) ==
    LET base == filename_base(latest_plots[i])
    IN  IF Fault("html", i) \in faults THEN {}
        ELSE IF Fault("png", i) \in faults THEN {Staged("plots", base, ".html")}
        ELSE IF Fault("info", i) \in faults
             THEN {Staged("plots", base, ".html"), Staged("plots", base, ".png")}
        ELSE {Staged("plots", base, ".html"), Staged("plots", base, ".png"),
              Staged("plots", base, "_info.txt")}

\* an index that lists every stored plot
PlotIndexedAlways(i, faults) == TRUE

\* the iteration reached plots_index.append
PlotIndexed(i, faults) ==
    /\ Fault("html", i) \notin faults
    /\ Fault("png", i) \notin faults
    /\ Fault("info", i) \notin faults

\* plots_index
PlotsIndex(faults) ==
    LET kept == SelectSeq([i \in 1..Len(latest_plots) |-> i],
                          LAMBDA i : PlotIndexed(i, faults))
    IN  [k \in 1..Len(kept) |->
            [id |-> latest_plots[kept[k]].id, title |-> latest_plots[kept[k]].title,
             filename |-> filename_base(latest_plots[kept[k]]),
             source |-> latest_plots[kept[k]].source]]

\* the exception of a write that is in no try block, or whose handler
\* itself fails, leaves create_data_package ("index" stands for the two
\* index files, index.json and README.md)
PackageRaises(faults) ==
    \/ Fault("summary", 0) \in faults
    \/ Fault("raw", 0) \in faults
    \/ /\ adata # None
       /\ Fault("h5ad", 0) \in faults
       /\ Fault("csv", 0) \in faults
    \/ /\ latest_plots # <<>>
       /\ Fault("index", 0) \in faults
    \/ Fault("zip", 0) \in faults

\* the files of the staging directory when the zip is made
StagedFiles(faults) ==
    {Staged("", None, "technical_summary.md"), Staged("", None, "raw_data.csv")}
        \cup (IF adata = None THEN {}
              ELSE IF Fault("h5ad", 0) \notin faults
                   THEN {Staged("", None, "processed_data.h5ad")}
              ELSE {Staged("", None, "processed_data.csv")})
        \cup (IF latest_plots = <<>> THEN {}
              ELSE {Staged("plots", None, "index.json"),
                    Staged("plots", None, "README.md")})
        \cup UNION {PlotFiles(i, faults) : i \in 1..Len(latest_plots)}

\* plots/README.md: one numbered section for each entry of plots_index
PlotsReadme(index) ==
    [k \in 1..Len(index) |->
        [idx |-> k, id |-> index[k].id, title |-> index[k].title,
         source |-> index[k].source]]

Archive(faults) ==
    [kind |-> "zip", entries |-> StagedFiles(faults), index |-> PlotsIndex(faults),
     readme |-> PlotsReadme(PlotsIndex(faults))]

ZipPath(output_dir) == Path(output_dir, "data_export.zip")

\* a create_data_package that makes the archive file before it looks at
\* the data
create_data_package_unchecked(output_dir, faults) ==
    /\ IF ~has_data
       THEN /\ files' = WriteFile(files, ZipPath(output_dir),
                                  [kind |-> "zip", entries |-> {}, index |-> <<>>,
                                   readme |-> <<>>])
            /\ last' = [op |-> "create_data_package", faults |-> faults,
                        had_data |-> FALSE, raised |-> TRUE, ret |-> None]
       ELSE IF PackageRaises(faults)
       THEN /\ UNCHANGED files
            /\ last' = [op |-> "create_data_package", faults |-> faults,
                        had_data |-> TRUE, raised |-> TRUE, ret |-> None]
       ELSE /\ files' = WriteFile(files, ZipPath(output_dir), Archive(faults))
            /\ last' = [op |-> "create_data_package", faults |-> faults,
                        had_data |-> TRUE, raised |-> FALSE, ret |-> ZipPath(output_dir)]
    /\ UNCHANGED <<storeVars, messages, metadata, session_id, stream, heap, parked, threads, events, response>>

\* a create_data_package that notes the export in the processing log
create_data_package_logging(output_dir, faults) ==
    /\ IF ~has_data
       THEN /\ UNCHANGED files
            /\ last' = [op |-> "create_data_package", faults |-> faults,
                        had_data |-> FALSE, raised |-> TRUE, ret |-> None]
       ELSE IF PackageRaises(faults)
       THEN /\ UNCHANGED files
            /\ last' = [op |-> "create_data_package", faults |-> faults,
                        had_data |-> TRUE, raised |-> TRUE, ret |-> None]
       ELSE /\ files' = WriteFile(files, ZipPath(output_dir), Archive(faults))
            /\ last' = [op |-> "create_data_package", faults |-> faults,
                        had_data |-> TRUE, raised |-> FALSE, ret |-> ZipPath(output_dir)]
    /\ processing_log' = Append(processing_log, [rows |-> 0, cols |-> 0])
    /\ UNCHANGED <<current_data, current_metadata, adata, latest_plots, plot_counter,
                   tool_usage_history, max_plots_history, added, issued, messages,
                   metadata, session_id, stream, heap, parked, threads, events, response>>

\* create_data_package(output_dir); faults are the writes that fail in this
\* call
create_data_package(output_dir, faults) ==
    /\ IF ~has_data
       THEN /\ UNCHANGED files
            /\ last' = [op |-> "create_data_package", faults |-> faults,
                        had_data |-> FALSE, raised |-> TRUE, ret |-> None]
       ELSE IF PackageRaises(faults)
       THEN /\ UNCHANGED files
            /\ last' = [op |-> "create_data_package", faults |-> faults,
                        had_data |-> TRUE, raised |-> TRUE, ret |-> None]
       ELSE /\ files' = WriteFile(files, ZipPath(output_dir), Archive(faults))
            /\ last' = [op |-> "create_data_package", faults |-> faults,
                        had_data |-> TRUE, raised |-> FALSE, ret |-> ZipPath(output_dir)]
    /\ UNCHANGED <<storeVars, messages, metadata, session_id, stream, heap, parked, threads, events, response>>

(***************************************************************************)
(* DataManager: saving to the workspace                                    *)
(***************************************************************************)
\* the name of a workspace file: <filename_base><name> for a file of a plot,
\* <name> for the others (plot is None)
FileName(plot, name) == [plot |-> plot, name |-> name]

\* the file a write leaves at path
WrittenAt(path) == [path |-> path, content |-> "written"]

\* files written over what the directory held
WriteAll(fs, written) ==
    {f \in fs : \A w \in written : w.path # f.path} \cup written

\* one iteration of the loop of save_plots_to_workspace: the paths that
\* reach saved_files. A failure of write_html ends the iteration, a failure
\* of write_image is caught on its own and keeps the html
SavedOfPlot(i, faults) ==
    LET base == filename_base(latest_plots[i])
    IN  IF Fault("html", i) \in faults THEN <<>>
        ELSE IF Fault("png", i) \in faults
             THEN <<Path("plots", FileName(base, ".html"))>>
        ELSE <<Path("plots", FileName(base, ".html")),
               Path("plots", FileName(base, ".png"))>>

\* saved_files after the first n plots
RECURSIVE SavedFiles(_, _)
SavedFiles(n, faults) ==
    IF n = 0 THEN <<>> ELSE SavedFiles(n - 1, faults) \o SavedOfPlot(n, faults)

\* the return value of save_plots_to_workspace
SavedPlots(faults) == SavedFiles(Len(latest_plots), faults)

PlotsWritten(faults) ==
    {WrittenAt(SavedPlots(faults)[k]) : k \in DOMAIN SavedPlots(faults)}

save_plots_to_workspace(faults) ==
    /\ files' = WriteAll(files, PlotsWritten(faults))
    /\ last' = [op |-> "save_plots_to_workspace", faults |-> faults, raised |-> FALSE,
                ret |-> SavedPlots(faults)]
    /\ UNCHANGED <<storeVars, messages, metadata, session_id, stream, heap, parked,
                   threads, events, response>>

\* f"data_{timestamp}.csv"
DefaultDataFile == Path("data", FileName(None, "data_<timestamp>.csv"))

\* what the try block of save_data_to_workspace leaves in data/: the csv
\* unless to_csv raised, the metadata json when there is metadata and its
\* write did not raise
DataWritten(faults) ==
    IF ~has_data \/ Fault("data_csv", 0) \in faults THEN {}
    ELSE {WrittenAt(DefaultDataFile)}
             \cup (IF current_metadata # {} /\ Fault("data_metadata", 0) \notin faults
                   THEN {WrittenAt(Path("data", FileName(None, "data_<timestamp>_metadata.json")))}
                   ELSE {})

\* the return value of save_data_to_workspace(): the path, or None when
\* there is no data or a write raised
SavedData(faults) ==
    IF ~has_data THEN None
    ELSE IF Fault("data_csv", 0) \in faults THEN None
    ELSE IF current_metadata # {} /\ Fault("data_metadata", 0) \in faults THEN None
    ELSE DefaultDataFile

save_data_to_workspace(faults) ==
    /\ files' = WriteAll(files, DataWritten(faults))
    /\ last' = [op |-> "save_data_to_workspace", faults |-> faults, had_data |-> has_data,
                raised |-> FALSE, ret |-> SavedData(faults)]
    /\ UNCHANGED <<storeVars, messages, metadata, session_id, stream, heap, parked,
                   threads, events, response>>

\* the processing-log step of auto_save_state runs
LogStep == processing_log # <<>> \/ tool_usage_history # <<>>

\* saved_items as auto_save_state builds it
SavedItems(faults) ==
    (IF SavedData(faults) # None THEN <<[item |-> "Data"]>> ELSE <<>>)
        \o (IF latest_plots # <<>> /\ SavedPlots(faults) # <<>>
             THEN <<[item |-> "Plots", count |-> Len(SavedPlots(faults))]>> ELSE <<>>)
        \o (IF LogStep THEN <<[item |-> "Processing log"]>> ELSE <<>>)

\* auto_save_state(): the data step, the plots step, then the processing
\* log written with open() and json.dump in no try block
auto_save_state(faults) ==
    /\ files' = WriteAll(files,
                         DataWritten(faults) \cup PlotsWritten(faults)
                             \cup (IF LogStep /\ Fault("log", 0) \notin faults
                                   THEN {WrittenAt(Path("exports", FileName(None, "processing_log.json")))}
                                   ELSE {}))
    /\ last' = IF LogStep /\ Fault("log", 0) \in faults
               THEN [op |-> "auto_save_state", faults |-> faults, raised |-> TRUE,
                     ret |-> <<>>]
               ELSE [op |-> "auto_save_state", faults |-> faults, raised |-> FALSE,
                     ret |-> SavedItems(faults)]
    /\ UNCHANGED <<storeVars, messages, metadata, session_id, stream, heap, parked,
                   threads, events, response>>

(***************************************************************************)
(* AgentClient: response extraction                                        *)
(***************************************************************************)
\* "No response generated."
Sentinel ==
    <<"N", "o", " ", "r", "e", "s", "p", "o", "n", "s", "e", " ",
      "g", "e", "n", "e", "r", "a", "t", "e", "d", ".">>

HumanMessage(content) == [role |-> "human", content |-> content]
AIMessage(content) == [role |-> "ai", content |-> content]

\* str.strip()
strip(s) == rstrip(lstrip(s))

\* msg.content.strip() if msg.content else ""
StrippedContent(msg) == IF msg.content # <<>> THEN strip(msg.content) ELSE <<>>

\* isinstance(msg, AIMessage) and (content or msg.content == "")
Answers(msg) ==
    /\ msg.role = "ai"
    /\ (StrippedContent(msg) # <<>> \/ msg.content = <<>>)

\* for msg in reversed(value): the first message that answers, from index i
\* downwards
RECURSIVE ScanMessages(_, _)
ScanMessages(msgs, i) ==
    IF i = 0 THEN [found |-> FALSE, content |-> <<>>]
    ELSE IF Answers(msgs[i]) THEN [found |-> TRUE, content |-> StrippedContent(msgs[i])]
    ELSE ScanMessages(msgs, i - 1)

\* for event in reversed(events): one pass, task_result and checkpoint
\* events handled by the two branches of the same loop body
RECURSIVE ScanEvents(_, _)
ScanEvents(evs, i) ==
    IF i = 0 THEN Sentinel
    ELSE IF evs[i].type \in {"task_result", "checkpoint"}
            /\ ScanMessages(evs[i].messages, Len(evs[i].messages)).found
         THEN ScanMessages(evs[i].messages, Len(evs[i].messages)).content
    ELSE ScanEvents(evs, i - 1)

_extract_response(evs) == IF evs = <<>> THEN Sentinel ELSE ScanEvents(evs, Len(evs))

(***************************************************************************)
(* AgentClient: query and reset                                            *)
(***************************************************************************)
\* a message content that is a list of content blocks, not a string
ContentBlocks == <<"[blocks]">>

\* msg.content.strip() on a non-empty list raises AttributeError
StripRaises(msg) == msg.role = "ai" /\ msg.content = ContentBlocks

StripError == "'list' object has no attribute 'strip'"

\* does the reverse scan of one message list reach a message whose content
\* cannot be stripped before it reaches one that answers
RECURSIVE RaisesInMessages(_, _)
RaisesInMessages(msgs, i) ==
    IF i = 0 THEN FALSE
    ELSE IF StripRaises(msgs[i]) THEN TRUE
    ELSE IF Answers(msgs[i]) THEN FALSE
    ELSE RaisesInMessages(msgs, i - 1)

\* does _extract_response raise on these events
RECURSIVE RaisesInEvents(_, _)
RaisesInEvents(evs, i) ==
    IF i = 0 THEN FALSE
    ELSE IF evs[i].type \in {"task_result", "checkpoint"}
         THEN IF RaisesInMessages(evs[i].messages, Len(evs[i].messages)) THEN TRUE
              ELSE IF ScanMessages(evs[i].messages, Len(evs[i].messages)).found THEN FALSE
              ELSE RaisesInEvents(evs, i - 1)
    ELSE RaisesInEvents(evs, i - 1)

\* where this turn raises: in graph.stream, in _extract_response, nowhere
FaultOf(run) ==
    IF run.raises THEN "engine"
    ELSE IF RaisesInEvents(run.events, Len(run.events)) THEN "extract"
    ELSE "none"

ErrorOf(run) == IF run.raises THEN run.error ELSE StripError

\* where the previous call raised, when it was a query
PreviousFault == IF last.op = "query" THEN last.fault ELSE "none"

\* the record the except clause of _run_query returns
ErrorResult(error) ==
    [success |-> FALSE,
     error |-> error,
     response |-> <<"I encountered an error: ", error>>]

\* a _run_query whose try covers graph.stream only: a failing extraction
\* reaches the caller
_run_query_try_stream_only(run, user_input, history) ==
    /\ messages' = history
    /\ last' = [op |-> "query", user_input |-> user_input, before |-> messages,
                fault |-> FaultOf(run), error |-> ErrorOf(run),
                after |-> PreviousFault,
                raised |-> FaultOf(run) = "extract",
                result |-> ErrorResult(ErrorOf(run))]

\* a _run_query whose except clause records the error text as the
\* assistant's answer
_run_query_recording_error(run, user_input, history) ==
    /\ messages' = IF FaultOf(run) # "none"
                   THEN Append(history, AIMessage(<<"I encountered an error: ", ErrorOf(run)>>))
                   ELSE history
    /\ last' = [op |-> "query", user_input |-> user_input, before |-> messages,
                fault |-> FaultOf(run), error |-> ErrorOf(run),
                after |-> PreviousFault,
                raised |-> FALSE,
                result |-> ErrorResult(ErrorOf(run))]

\* _run_query: run is what graph.stream does in this turn, the events it
\* yields and whether it raises after them
_run_query(run, user_input, history) ==
    IF FaultOf(run) # "none"
    THEN /\ messages' = history
         /\ last' = [op |-> "query", user_input |-> user_input, before |-> messages,
                     fault |-> FaultOf(run), error |-> ErrorOf(run),
                     after |-> PreviousFault,
                     raised |-> FALSE,
                     result |-> ErrorResult(ErrorOf(run))]
    ELSE LET final_response == _extract_response(run.events)
         IN  /\ messages' = IF final_response # <<>>
                            THEN Append(history, AIMessage(final_response))
                            ELSE history
             /\ last' = [op |-> "query", user_input |-> user_input, before |-> messages,
                         fault |-> "none", error |-> "",
                         after |-> PreviousFault,
                         raised |-> FALSE,
                         result |-> [success |-> TRUE,
                                     response |-> final_response,
                                     events_count |-> Len(run.events),
                                     has_data |-> has_data,
                                     plots |-> IF has_data THEN get_latest_plots(PyInt(5))
                                               ELSE <<>>]]

\* a query that forgets to record the user's message
query_without_user_message(user_input, run) ==
    /\ _run_query(run, user_input, messages)
    /\ UNCHANGED <<storeVars, metadata, session_id, stream, files, heap, parked, threads, events, response>>

\* query(user_input, stream=False)
query(user_input, run) ==
    /\ _run_query(run, user_input, Append(messages, HumanMessage(user_input)))
    /\ UNCHANGED <<storeVars, metadata, session_id, stream, files, heap, parked, threads, events, response>>

\* a reset that also drops the registered plots
reset_dropping_plots ==
    /\ messages' = <<>>
    /\ metadata' = metadata \cup {"reset_at"}
    /\ latest_plots' = <<>>
    /\ last' = [op |-> "reset", before |-> messages]
    /\ UNCHANGED <<current_data, current_metadata, adata, plot_counter, processing_log,
                   tool_usage_history, max_plots_history, added, issued, session_id,
                   stream, files, heap, parked, threads, events, response>>

reset ==
    /\ messages' = <<>>
    /\ metadata' = metadata \cup {"reset_at"}
    /\ last' = [op |-> "reset", before |-> messages]
    /\ UNCHANGED <<storeVars, session_id, stream, files, heap, parked, threads, events, response>>

(***************************************************************************)
(* AgentClient: export_session                                             *)
(***************************************************************************)
\* a final fallback that gives up: the exception goes to the caller
FinalFallbackReraising(export_path, faults, tiers) ==
    /\ UNCHANGED files
    /\ last' = [op |-> "export_session", faults |-> faults, had_data |-> has_data,
                raised |-> TRUE, ret |-> None, tiers |-> tiers]

\* the final fallback of export_session: the minimal JSON, written outside
\* of any try block.  tiers are the tiers attempted before it
FinalFallback(export_path, faults, tiers) ==
    LET path == IF export_path # None THEN export_path
                ELSE Path("workspace", "session_basic.json")
    IN  IF Fault("minimal", 0) \in faults
        THEN /\ UNCHANGED files
             /\ last' = [op |-> "export_session", faults |-> faults,
                         had_data |-> has_data, raised |-> TRUE, ret |-> None,
                         tiers |-> Append(tiers, "minimal")]
        ELSE /\ files' = WriteFile(files, path, [kind |-> "minimal"])
             /\ last' = [op |-> "export_session", faults |-> faults,
                         had_data |-> has_data, raised |-> FALSE, ret |-> path,
                         tiers |-> Append(tiers, "minimal")]

\* the else branch of export_session: the JSON session snapshot; export_path
\* is reassigned before anything can fail, so the final fallback writes to
\* the same path
SessionSnapshot(export_path, faults, tiers) ==
    LET path == IF export_path # None THEN export_path
                ELSE Path("workspace", "session.json")
    IN  IF Fault("snapshot", 0) \in faults
        THEN FinalFallback(path, faults, Append(tiers, "snapshot"))
        ELSE /\ files' = WriteFile(files, path, [kind |-> "snapshot"])
             /\ last' = [op |-> "export_session", faults |-> faults,
                         had_data |-> has_data, raised |-> FALSE, ret |-> path,
                         tiers |-> Append(tiers, "snapshot")]

\* an export_session that goes on to the session snapshot when the package
\* fails
export_session_package_then_snapshot(export_path, faults) ==
    /\ IF has_data
       THEN IF PackageRaises(faults)
            THEN SessionSnapshot(export_path, faults, <<"package">>)
            ELSE /\ files' = WriteFile(files, ZipPath("exports"), Archive(faults))
                 /\ last' = [op |-> "export_session", faults |-> faults,
                             had_data |-> TRUE, raised |-> FALSE,
                             ret |-> ZipPath("exports"), tiers |-> <<"package">>]
       ELSE SessionSnapshot(export_path, faults, <<>>)
    /\ UNCHANGED <<storeVars, messages, metadata, session_id, stream, heap, parked, threads, events, response>>

\* export_session(export_path); faults are the writes that fail in this call
export_session(export_path, faults) ==
    /\ IF has_data
       THEN IF PackageRaises(faults)
            THEN FinalFallback(export_path, faults, <<"package">>)
            ELSE /\ files' = WriteFile(files, ZipPath("exports"), Archive(faults))
                 /\ last' = [op |-> "export_session", faults |-> faults,
                             had_data |-> TRUE, raised |-> FALSE,
                             ret |-> ZipPath("exports"), tiers |-> <<"package">>]
       ELSE SessionSnapshot(export_path, faults, <<>>)
    /\ UNCHANGED <<storeVars, messages, metadata, session_id, stream, heap, parked, threads, events, response>>

(***************************************************************************)
(* AgentClient: streaming query                                            *)
(***************************************************************************)
\* the return value of _extract_event_content: None or a string
NoContent == [kind |-> "None", chars |-> <<>>]
Content(chars) == [kind |-> "str", chars |-> chars]

\* a node output that is a dict; a key that is absent and a key whose value
\* is falsy are both the empty value here, the code treats them alike
NodeDict(msgs, analysis_results, next_node, data_context) ==
    [kind |-> "dict", messages |-> msgs, analysis_results |-> analysis_results,
     next |-> next_node, data_context |-> data_context]

NotADict == [kind |-> "other"]

\* for msg in reversed(node_output["messages"]): the last AIMessage whose
\* content is truthy, from index i downwards
RECURSIVE LastAIContent(_, _)
LastAIContent(msgs, i) ==
    IF i = 0 THEN NoContent
    ELSE IF msgs[i].role = "ai" /\ msgs[i].content # <<>> THEN Content(msgs[i].content)
    ELSE LastAIContent(msgs, i - 1)

\* f"{key}: {value}"
KeyValue(key, value) == Content(<<key, ":", " ">> \o value)

_extract_event_content(node_output) ==
    IF node_output.kind # "dict" THEN NoContent
    ELSE IF LastAIContent(node_output.messages, Len(node_output.messages)) # NoContent
         THEN LastAIContent(node_output.messages, Len(node_output.messages))
    ELSE IF node_output.analysis_results # <<>>
         THEN KeyValue("analysis_results", node_output.analysis_results)
    ELSE IF node_output.next # <<>> THEN KeyValue("next", node_output.next)
    ELSE IF node_output.data_context # <<>>
         THEN KeyValue("data_context", node_output.data_context)
    ELSE NoContent

\* if content:
Displayable(content) == content.kind # "None" /\ content.chars # <<>>

StreamRecord(node_name, content) ==
    [type |-> "stream", node |-> node_name, content |-> content]
CompleteRecord == [type |-> "complete", node |-> "", content |-> NoContent]
ErrorRecord(error) == [type |-> "error", node |-> "", content |-> Content(<<error>>)]

ItemsError == "'list' object has no attribute 'items'"

\* the generator object right after _stream_query(...) was called: its body
\* has not started.  run is what graph.stream will do when iterated, asked
\* counts the events requested from it and pulled those received, node the
\* items of the current event already handled, requests the consumer's
\* next() calls, raised whether an exception left the generator
NewGenerator(run) ==
    [pc |-> "created", run |-> run, asked |-> 0, pulled |-> 0, node |-> 0,
     records |-> <<>>, requests |-> 0, raised |-> FALSE]

Yield(g, record, pc) == [g EXCEPT !.records = Append(@, record), !.pc = pc]

\* a generator body without the except clause: a failure of the engine
\* leaves the generator as an exception
RECURSIVE _stream_query_no_except(_)
_stream_query_no_except(g) ==
    IF g.pulled > 0 /\ g.node < Len(g.run.events[g.pulled].items)
    THEN LET item == g.run.events[g.pulled].items[g.node + 1]
             content == _extract_event_content(item.output)
             h == [g EXCEPT !.node = @ + 1]
         IN  IF Displayable(content)
             THEN Yield(h, StreamRecord(item.node, content), "suspended")
             ELSE _stream_query_no_except(h)
    ELSE IF g.pulled < Len(g.run.events)
    THEN LET h == [g EXCEPT !.asked = @ + 1, !.pulled = @ + 1, !.node = 0]
         IN  IF g.run.events[g.pulled + 1].kind # "dict"
             THEN [h EXCEPT !.pc = "exhausted", !.raised = TRUE]
             ELSE _stream_query_no_except(h)
    ELSE IF g.run.raises
    THEN [g EXCEPT !.asked = @ + 1, !.pc = "exhausted", !.raised = TRUE]
    ELSE Yield([g EXCEPT !.asked = @ + 1], CompleteRecord, "terminal")

\* a generator body that yields a stream record for every node output
RECURSIVE _stream_query_unfiltered(_)
_stream_query_unfiltered(g) ==
    IF g.pulled > 0 /\ g.node < Len(g.run.events[g.pulled].items)
    THEN LET item == g.run.events[g.pulled].items[g.node + 1]
             content == _extract_event_content(item.output)
         IN  Yield([g EXCEPT !.node = @ + 1], StreamRecord(item.node, content),
                   "suspended")
    ELSE IF g.pulled < Len(g.run.events)
    THEN LET h == [g EXCEPT !.asked = @ + 1, !.pulled = @ + 1, !.node = 0]
         IN  IF g.run.events[g.pulled + 1].kind # "dict"
             THEN Yield(h, ErrorRecord(ItemsError), "terminal")
             ELSE _stream_query_unfiltered(h)
    ELSE IF g.run.raises
    THEN Yield([g EXCEPT !.asked = @ + 1], ErrorRecord(g.run.error), "terminal")
    ELSE Yield([g EXCEPT !.asked = @ + 1], CompleteRecord, "terminal")

\* the body of _stream_query resumed from where generator g stands, up to
\* its next yield: the rest of the current event's items, then the next
\* events of the engine, then the completion record; an exception of the
\* engine or of event.items() is caught and yields the error record
RECURSIVE _stream_query(_)
_stream_query(g) ==
    IF g.pulled > 0 /\ g.node < Len(g.run.events[g.pulled].items)
    THEN LET item == g.run.events[g.pulled].items[g.node + 1]
             content == _extract_event_content(item.output)
             h == [g EXCEPT !.node = @ + 1]
         IN  IF Displayable(content)
             THEN Yield(h, StreamRecord(item.node, content), "suspended")
             ELSE _stream_query(h)
    ELSE IF g.pulled < Len(g.run.events)
    THEN LET h == [g EXCEPT !.asked = @ + 1, !.pulled = @ + 1, !.node = 0]
         IN  IF g.run.events[g.pulled + 1].kind # "dict"
             THEN Yield(h, ErrorRecord(ItemsError), "terminal")
             ELSE _stream_query(h)
    ELSE IF g.run.raises
    THEN Yield([g EXCEPT !.asked = @ + 1], ErrorRecord(g.run.error), "terminal")
    ELSE Yield([g EXCEPT !.asked = @ + 1], CompleteRecord, "terminal")

\* a streaming query that runs the engine up to the first record before it
\* returns
query_stream_eager(user_input, run) ==
    /\ messages' = Append(messages, HumanMessage(user_input))
    /\ stream' = _stream_query(NewGenerator(run))
    /\ last' = [op |-> "query_stream", user_input |-> user_input]
    /\ UNCHANGED <<storeVars, metadata, session_id, files, heap, parked, threads, events, response>>

\* query(user_input, stream=True): records the user's message and returns
\* the generator
query_stream(user_input, run) ==
    /\ messages' = Append(messages, HumanMessage(user_input))
    /\ stream' = NewGenerator(run)
    /\ last' = [op |-> "query_stream", user_input |-> user_input]
    /\ UNCHANGED <<storeVars, metadata, session_id, files, heap, parked, threads, events, response>>

\* a consumer step that records the content of a stream record as the
\* assistant's answer
next_record_recording_answer ==
    /\ stream.pc \in {"created", "suspended", "terminal"}
    /\ stream' = IF stream.pc = "terminal"
                 THEN [stream EXCEPT !.requests = @ + 1, !.pc = "exhausted"]
                 ELSE _stream_query([stream EXCEPT !.requests = @ + 1])
    /\ messages' = IF stream.pc # "terminal" /\ stream'.pc = "suspended"
                   THEN Append(messages, AIMessage(<<"o", "k">>))
                   ELSE messages
    /\ last' = [op |-> "next"]
    /\ UNCHANGED <<storeVars, metadata, session_id, files, heap, parked, threads, events, response>>

\* next(generator), the consumer asking for one more record
next_record ==
    /\ stream.pc \in {"created", "suspended", "terminal"}
    /\ stream' = IF stream.pc = "terminal"
                 THEN [stream EXCEPT !.requests = @ + 1, !.pc = "exhausted"]
                 ELSE _stream_query([stream EXCEPT !.requests = @ + 1])
    /\ last' = [op |-> "next"]
    /\ UNCHANGED <<storeVars, messages, metadata, session_id, files, heap, parked, threads, events, response>>

(***************************************************************************)
(* The store after DataManager.__init__, the client after                  *)
(* AgentClient.__init__.                                                   *)
(***************************************************************************)
Init ==
    /\ current_data = None
    /\ current_metadata = {}
    /\ adata = None
    /\ latest_plots = <<>>
    /\ plot_counter = 0
    /\ processing_log = <<>>
    /\ tool_usage_history = <<>>
    /\ max_plots_history = 50
    /\ messages = <<>>
    /\ metadata = {"created_at", "session_id", "workspace"}
    /\ session_id = "session_1"
    /\ stream = NoStream
    /\ files = {}
    /\ heap = <<>>
    /\ parked = NoSession
    /\ threads = NoThreads
    /\ events = <<>>
    /\ response = None
    /\ last = [op |-> "init"]
    /\ added = <<>>
    /\ issued = <<>>

Titles == {None, Str("QC 1: a/b ")}
Sources == {None}

(***************************************************************************)
(* Spec: the store taking set_data calls, with every argument of the       *)
(* bounded shapes as input, from empty and from loaded states.             *)
(***************************************************************************)
SetData ==
    \E data \in DataFrames \cup {None, NotADataFrame}, md \in Metadatas,
       outcome \in AnnDataOutcomes :
        /\ IF SetDataRaises(data) THEN TRUE ELSE Len(processing_log) < MaxLog
        /\ set_data(data, md, outcome)

AddPlot ==
    /\ plot_counter < MaxExportPlots
    /\ \E plot \in {Figure, NotAFigure}, title \in Titles, source \in Sources :
           add_plot(plot, title, source)

Next == SetData

Spec == Init /\ [][Next]_vars

(***************************************************************************)
(* SpecExtract: _extract_response applied to every event list of the       *)
(* bounded shapes.                                                         *)
(***************************************************************************)
\* texts an assistant message can carry: empty, blank, plain, padded
Contents == {<<>>, <<" ">>, <<"o", "k">>, <<" ", "o", "k", " ">>}

Messages == {AIMessage(c) : c \in Contents} \cup {HumanMessage(<<"h", "i">>)}

Event(type, msgs) == [type |-> type, messages |-> msgs]

\* debug-mode events: task_result and checkpoint events with their message
\* list (empty when the payload has none), and events of another kind
Events ==
    {Event(t, ms) : t \in {"task_result", "checkpoint"}, ms \in SeqsUpTo(Messages, MaxMsgs)}
        \cup {Event("task", <<>>)}

InitExtract ==
    /\ current_data = None
    /\ current_metadata = {}
    /\ adata = None
    /\ latest_plots = <<>>
    /\ plot_counter = 0
    /\ processing_log = <<>>
    /\ tool_usage_history = <<>>
    /\ max_plots_history = 50
    /\ messages = <<>>
    /\ metadata = {"created_at", "session_id", "workspace"}
    /\ session_id = "session_1"
    /\ stream = NoStream
    /\ files = {}
    /\ heap = <<>>
    /\ parked = NoSession
    /\ threads = NoThreads
    /\ events \in SeqsUpTo(Events, MaxEvents)
    /\ response = None
    /\ last = [op |-> "init"]
    /\ added = <<>>
    /\ issued = <<>>

Extract ==
    /\ last.op = "init"
    /\ response' = _extract_response(events)
    /\ last' = [op |-> "_extract_response"]
    /\ UNCHANGED <<storeVars, messages, metadata, session_id, stream, files, heap, parked, threads, events>>

NextExtract == Extract

SpecExtract == InitExtract /\ [][NextExtract]_vars

(***************************************************************************)
(* SpecPlots: the store with the default capacity of 50 plots, driven far  *)
(* enough for the collection to overflow; datasets and tool records are    *)
(* kept to one value each.                                                 *)
(***************************************************************************)
ClearPlots == clear_plots

AddPlotToFull ==
    /\ plot_counter < MaxCounter
    /\ \E plot \in {Figure, NotAFigure} : add_plot(plot, None, None)

SetDataSmall ==
    \E data \in {None, DataFrame(1, <<Column("float64", FALSE)>>)} :
        /\ IF SetDataRaises(data) THEN TRUE ELSE Len(processing_log) < 1
        /\ set_data(data, None, "ok")

LogToolUsageOnce ==
    /\ Len(tool_usage_history) < 1
    /\ log_tool_usage("qc", Dict({}), None)

NextPlots == AddPlotToFull \/ ClearPlots \/ SetDataSmall \/ LogToolUsageOnce

SpecPlots == Init /\ [][NextPlots]_vars

(***************************************************************************)
(* SpecClient: a session taking non-streaming turns and resets, over a     *)
(* store that changes between turns.                                       *)
(***************************************************************************)
UserInputs == {<<"h", "i">>, <<>>}

Run(evs) == [raises |-> FALSE, events |-> evs, error |-> ""]

\* what the engine does in one turn: yields events (none, an answer, an
\* empty answer, a padded answer in a checkpoint, no assistant message, an
\* assistant message made of content blocks), or raises at once or after
\* an event
EngineRuns ==
    {Run(<<>>),
     Run(<<Event("task_result", <<HumanMessage(<<"h", "i">>), AIMessage(<<"o", "k">>)>>)>>),
     Run(<<Event("task_result", <<AIMessage(<<"o", "k">>), AIMessage(<<>>)>>)>>),
     Run(<<Event("task", <<>>), Event("checkpoint", <<AIMessage(<<" ", "o", "k", " ">>)>>)>>),
     Run(<<Event("task_result", <<HumanMessage(<<"h", "i">>)>>)>>),
     Run(<<Event("task_result", <<AIMessage(<<"o", "k">>), AIMessage(ContentBlocks)>>)>>),
     [raises |-> TRUE, events |-> <<>>, error |-> "engine failed"],
     [raises |-> TRUE, events |-> <<Event("task", <<>>)>>, error |-> "engine failed"]}

Query ==
    /\ Len(messages) < 2 * MaxTurns
    /\ \E user_input \in UserInputs, run \in EngineRuns : query(user_input, run)

Reset == reset

AddPlotUntitled ==
    /\ plot_counter < MaxAdds
    /\ add_plot(Figure, None, None)

NextClient == Query \/ Reset \/ SetDataSmall \/ AddPlotUntitled

SpecClient == Init /\ [][NextClient]_vars

(***************************************************************************)
(* One turn over stores that hold up to MaxShown plots, with and without   *)
(* a dataset.                                                              *)
(***************************************************************************)
AddPlotShown ==
    /\ plot_counter < MaxShown
    /\ add_plot(Figure, None, None)

QueryOnce ==
    /\ messages = <<>>
    /\ query(<<"h", "i">>,
             Run(<<Event("task_result", <<AIMessage(<<"o", "k">>)>>)>>))

\* a caller asks for the latest n plots, or for all of them
GetLatestPlots ==
    /\ \E n \in {None} \cup {PyInt(k) : k \in 0..(MaxShown + 1)} :
           last' = [op |-> "get_latest_plots", n |-> n, ret |-> get_latest_plots(n)]
    /\ UNCHANGED <<current_data, current_metadata, adata, latest_plots, plot_counter,
                   processing_log, tool_usage_history, max_plots_history, messages,
                   metadata, session_id, stream, files, heap, parked, threads, events, response,
                   added, issued>>

NextResult == AddPlotShown \/ ClearPlots \/ SetDataSmall \/ QueryOnce \/ GetLatestPlots

SpecResult == Init /\ [][NextResult]_vars

(***************************************************************************)
(* Streaming queries over every engine run of up to MaxStreamEvents        *)
(* events.                                                                 *)
(***************************************************************************)
NodeOutputs ==
    {NodeDict(<<HumanMessage(<<"h", "i">>), AIMessage(<<"o", "k">>)>>, <<>>, <<>>, <<>>),
     NodeDict(<<AIMessage(<<>>)>>, <<>>, <<"a">>, <<>>),
     NodeDict(<<>>, <<>>, <<>>, <<>>),
     NodeDict(<<HumanMessage(<<"h", "i">>)>>, <<"r">>, <<>>, <<"d">>),
     NotADict}

Item(node_name, output) == [node |-> node_name, output |-> output]

StreamEvent(items) == [kind |-> "dict", items |-> items]
\* an event that is not a mapping: event.items() raises
BadEvent == [kind |-> "list", items |-> <<>>]

StreamEvents ==
    {StreamEvent(<<>>), BadEvent}
        \cup {StreamEvent(<<Item("agent", o)>>) : o \in NodeOutputs}
        \cup {StreamEvent(<<Item("supervisor", o1), Item("agent", o2)>>) :
                  o1 \in {NodeDict(<<>>, <<>>, <<>>, <<>>),
                          NodeDict(<<AIMessage(<<>>)>>, <<>>, <<"a">>, <<>>)},
                  o2 \in {NodeDict(<<>>, <<>>, <<>>, <<>>),
                          NodeDict(<<HumanMessage(<<"h", "i">>), AIMessage(<<"o", "k">>)>>,
                                   <<>>, <<>>, <<>>)}}

StreamRuns ==
    {[raises |-> r, events |-> evs, error |-> "engine failed"] :
        r \in BOOLEAN, evs \in SeqsUpTo(StreamEvents, MaxStreamEvents)}

\* the exploration follows one streaming query from its call onwards
QueryStream ==
    /\ stream.pc = "none"
    /\ \E run \in StreamRuns : query_stream(<<"h", "i">>, run)

NextRecord == next_record

NextStream == QueryStream \/ NextRecord

SpecStream == Init /\ [][NextStream]_vars

(***************************************************************************)
(* Exports from stores with and without a dataset, a derived matrix and    *)
(* plots, with up to two writes failing in a call.                         *)
(***************************************************************************)
SetDataForExport ==
    \E data \in {None, DataFrame(1, <<Column("float64", FALSE)>>)},
       outcome \in {"ok", "none"} :
        /\ IF SetDataRaises(data) THEN TRUE ELSE Len(processing_log) < 1
        /\ set_data(data, None, outcome)

\* the writes of create_data_package that can fail
PackageFaults ==
    {Fault(op, 0) : op \in {"summary", "raw", "h5ad", "csv", "index", "zip"}}
        \cup {Fault(op, i) : op \in {"html", "png", "info"}, i \in 1..MaxExportPlots}

\* the writes of export_session itself
SessionFaults == {Fault("snapshot", 0), Fault("minimal", 0)}

\* no write, one write or two writes fail in a call
FaultSets(faults) == {{}} \cup {{f, g} : f \in faults, g \in faults}

ExportPaths == {None, Path("custom", "out.json")}

\* the exploration follows exports into a workspace that holds no file yet
CreateDataPackage ==
    /\ files = {}
    /\ \E faults \in FaultSets(PackageFaults) : create_data_package("exports", faults)

ExportSession ==
    /\ files = {}
    /\ \E export_path \in ExportPaths,
          faults \in FaultSets(PackageFaults \cup SessionFaults) :
           export_session(export_path, faults)

NextExport == SetDataForExport \/ AddPlot \/ CreateDataPackage \/ ExportSession

SpecExport == Init /\ [][NextExport]_vars

(***************************************************************************)
(* Provenance: the tool usage history under every operation of the store   *)
(* and of the client, with a caller that keeps the dict it passed          *)
(***************************************************************************)
ParameterMaps == {Dict({[key |-> "min_genes", value |-> PyInt(200)]})}

ToolNames == {"qc", "cluster"}

\* the caller builds a parameter dict and keeps it in a local variable
NewParameters ==
    /\ heap = <<>>
    /\ \E d \in ParameterMaps : heap' = <<d>>
    /\ UNCHANGED <<current_data, current_metadata, adata, latest_plots, plot_counter,
                   processing_log, tool_usage_history, max_plots_history, messages,
                   metadata, session_id, stream, files, parked, threads, events, response,
                   last, added, issued>>

\* the ways the caller changes its dict: params["min_genes"] = 200 on a
\* dict without the key, del params[key], params[key] = 201
Mutations(d) ==
    (IF d.items = {} THEN {Dict({[key |-> "min_genes", value |-> PyInt(200)]})} ELSE {})
        \cup {Dict(d.items \ {it}) : it \in d.items}
        \cup {Dict((d.items \ {it}) \cup {[key |-> it.key, value |-> PyInt(201)]}) : it \in d.items}

MutateParameters ==
    /\ heap # <<>>
    /\ \E d \in Mutations(heap[1]) :
           /\ d # heap[1]
           /\ heap' = <<d>>
    /\ UNCHANGED <<current_data, current_metadata, adata, latest_plots, plot_counter,
                   processing_log, tool_usage_history, max_plots_history, messages,
                   metadata, session_id, stream, files, parked, threads, events, response,
                   last, added, issued>>

\* the call passes the dict the caller keeps
LogToolUsage ==
    /\ Len(tool_usage_history) < MaxTools
    /\ heap # <<>>
    /\ \E tool_name \in ToolNames : log_tool_usage(tool_name, Ref(1), None)

CreateDataPackageOnce ==
    /\ files = {}
    /\ create_data_package("exports", {})

ExportSessionOnce ==
    /\ files = {}
    /\ export_session(None, {})

NextProvenance ==
    \/ NewParameters
    \/ MutateParameters
    \/ LogToolUsage
    \/ SetDataSmall
    \/ AddPlotUntitled
    \/ ClearPlots
    \/ Reset
    \/ QueryOnce
    \/ CreateDataPackageOnce
    \/ ExportSessionOnce

SpecProvenance == Init /\ [][NextProvenance]_vars

(***************************************************************************)
(* Two sessions, each an AgentClient with a DataManager of its own. The    *)
(* variables hold the attributes of the session whose operation runs;      *)
(* parked holds the attributes of the other one.                           *)
(***************************************************************************)
\* the instance attributes of the running session
Running ==
    [id |-> session_id,
     messages |-> messages,
     metadata |-> metadata,
     current_data |-> current_data,
     current_metadata |-> current_metadata,
     adata |-> adata,
     latest_plots |-> latest_plots,
     plot_counter |-> plot_counter,
     processing_log |-> processing_log,
     tool_usage_history |-> tool_usage_history,
     max_plots_history |-> max_plots_history,
     added |-> added,
     issued |-> issued]

\* AgentClient(session_id=id): every attribute is assigned in __init__,
\* the DataManager is built there too
NewSession(id) ==
    [id |-> id,
     messages |-> <<>>,
     metadata |-> {"created_at", "session_id", "workspace"},
     current_data |-> None,
     current_metadata |-> {},
     adata |-> None,
     latest_plots |-> <<>>,
     plot_counter |-> 0,
     processing_log |-> <<>>,
     tool_usage_history |-> <<>>,
     max_plots_history |-> 50,
     added |-> <<>>,
     issued |-> <<>>]

\* attributes that live on the class: the plot collection and its counter
\* are the same objects in every session
ResumeSharingPlots(other) ==
    /\ session_id' = other.id
    /\ messages' = other.messages
    /\ metadata' = other.metadata
    /\ current_data' = other.current_data
    /\ current_metadata' = other.current_metadata
    /\ adata' = other.adata
    /\ processing_log' = other.processing_log
    /\ tool_usage_history' = other.tool_usage_history
    /\ max_plots_history' = other.max_plots_history
    /\ UNCHANGED <<latest_plots, plot_counter, added, issued>>

\* the next operation is one of the other session: self.* now names that
\* session's attributes
Resume(other) ==
    /\ session_id' = other.id
    /\ messages' = other.messages
    /\ metadata' = other.metadata
    /\ current_data' = other.current_data
    /\ current_metadata' = other.current_metadata
    /\ adata' = other.adata
    /\ latest_plots' = other.latest_plots
    /\ plot_counter' = other.plot_counter
    /\ processing_log' = other.processing_log
    /\ tool_usage_history' = other.tool_usage_history
    /\ max_plots_history' = other.max_plots_history
    /\ added' = other.added
    /\ issued' = other.issued

\* the caller turns to the other session, constructing it the first time
Switch ==
    /\ LET other == IF parked.id = "none" THEN NewSession("session_2") ELSE parked
       IN  /\ parked' = Running
           /\ Resume(other)
           /\ last' = [op |-> "switch", to |-> other.id]
    /\ UNCHANGED <<stream, files, heap, threads, events, response>>

NextSessions ==
    \/ Switch
    \/ QueryOnce
    \/ Reset
    \/ SetDataSmall
    \/ AddPlotUntitled
    \/ ClearPlots
    \/ LogToolUsageOnce

SpecSessions == Init /\ [][NextSessions]_vars

(***************************************************************************)
(* AgentClient: read_file and write_file over a workspace that holds up    *)
(* to MaxFiles files. A file name is the sequence of its characters, a     *)
(* file's content the sequence of the characters read_text() decodes.      *)
(***************************************************************************)
\* str.lower() on the characters that occur in the names below
LowerChar(c) ==
    IF c = "Q" THEN "q"
    ELSE IF c = "C" THEN "c"
    ELSE c

lower(name) == [i \in DOMAIN name |-> LowerChar(name[i])]

\* a byte that is no valid text: read_text() raises on a file that holds it
BadByte == "0xff"

DecodeError == "'utf-8' codec can't decode byte 0xff"

\* file_path.exists() and file_path.is_file()
Exists(path) == \E f \in files : f.path = path

FileAt(path) == CHOOSE f \in files : f.path = path

ReadTextRaises(f) == \E i \in DOMAIN f.content : f.content[i] = BadByte

\* try: return file_path.read_text()  except: return f"{prefix}{e}"
ReadOrError(f, prefix) ==
    IF ReadTextRaises(f) THEN Str(<<prefix, DecodeError>>) ELSE Str(f.content)

\* a search order that looks into plots/ first
search_dirs_plots_first == <<"plots", "data", "exports">>

\* [data_manager.data_dir, data_manager.plots_dir, data_manager.exports_dir]
search_dirs == <<"data", "plots", "exports">>

\* the exact-name loop over search_dirs from position i: the result of the
\* first directory that holds the name, None when the loop ends
RECURSIVE ExactInSubdirs(_, _)
ExactInSubdirs(filename, i) ==
    IF i > Len(search_dirs) THEN None
    ELSE IF Exists(Path(search_dirs[i], filename))
         THEN ReadOrError(FileAt(Path(search_dirs[i], filename)), "Error reading file: ")
    ELSE ExactInSubdirs(filename, i + 1)

\* the files of one directory whose lowered name is the lowered filename
Matches(dir, filename) ==
    {f \in files : f.path.dir = dir /\ lower(f.path.name) = lower(filename)}

\* the case-insensitive loop from position i: glob("*") lists a directory
\* in no particular order, so any match of the first directory that has
\* one can be the one returned
RECURSIVE CaseInsensitive(_, _)
CaseInsensitive(filename, i) ==
    IF i > Len(search_dirs) THEN {Str(<<"File not found in workspace: ">> \o filename)}
    ELSE IF Matches(search_dirs[i], filename) # {}
         THEN {ReadOrError(f, "Error reading file: ") : f \in Matches(search_dirs[i], filename)}
    ELSE CaseInsensitive(filename, i + 1)

\* a request: a relative name, or an absolute path
Relative(name) == [absolute |-> FALSE, dir |-> "", name |-> name]
Absolute(dir, name) == [absolute |-> TRUE, dir |-> dir, name |-> name]

\* read_file(filename): the values it can return
read_file(filename) ==
    IF filename.absolute
    THEN IF Exists(Path(filename.dir, filename.name))
         THEN {ReadOrError(FileAt(Path(filename.dir, filename.name)),
                           "Error reading file <path>: ")}
         ELSE {Str(<<"File not found: /", filename.dir, "/">> \o filename.name)}
    ELSE IF Exists(Path("root", filename.name))
         THEN {ReadOrError(FileAt(Path("root", filename.name)), "Error reading file: ")}
    ELSE IF ExactInSubdirs(filename.name, 1) # None
         THEN {ExactInSubdirs(filename.name, 1)}
    ELSE CaseInsensitive(filename.name, 1)

\* write_file(filename, content): True when the text was written to the
\* workspace root, False when the write raised
write_file(filename, content, fails) ==
    /\ files' = IF fails THEN files ELSE WriteFile(files, Path("root", filename), content)
    /\ last' = [op |-> "write_file", filename |-> filename, ret |-> ~fails]
    /\ UNCHANGED <<storeVars, messages, metadata, session_id, stream, heap, parked, threads,
                   events, response>>

FileNames == {<<"q", "c">>, <<"Q", "c">>, <<"Q", "C">>}

Locations == {"root", "data", "plots", "exports"}

\* what a file put at a place holds: text that names the place, or bytes
\* that are no text
TextOf(dir, name) == <<dir, "/">> \o name
Binary == <<BadByte>>

\* a file appears in the workspace: saved by a tool, or put there by the user
PutFile ==
    /\ Cardinality(files) < MaxFiles
    /\ \E dir \in Locations, name \in FileNames :
           /\ ~Exists(Path(dir, name))
           /\ \E content \in {TextOf(dir, name), Binary} :
                  files' = WriteFile(files, Path(dir, name), content)
    /\ last' = [op |-> "put_file"]
    /\ UNCHANGED <<storeVars, messages, metadata, session_id, stream, heap, parked, threads,
                   events, response>>

WriteFileCall ==
    /\ \E filename \in FileNames, fails \in BOOLEAN :
           /\ Exists(Path("root", filename)) \/ Cardinality(files) < MaxFiles
           /\ write_file(filename, <<"n", "e", "w">>, fails)

Requests ==
    {Relative(name) : name \in FileNames \cup {<<"q", "C">>}}
        \cup {Absolute("data", name) : name \in FileNames}

ReadFile ==
    /\ \E filename \in Requests :
           \E ret \in read_file(filename) :
               last' = [op |-> "read_file", filename |-> filename, ret |-> ret]
    /\ UNCHANGED <<storeVars, messages, metadata, session_id, stream, files, heap,
                   parked, threads, events, response>>

NextRead == PutFile \/ WriteFileCall \/ ReadFile

SpecRead == Init /\ [][NextRead]_vars

(***************************************************************************)
(* The technical summary over stores with and without a dataset and with   *)
(* up to MaxTools logged tools                                             *)
(***************************************************************************)
\* parameter dicts built in the call: none, a number, a list of six
LiteralMaps ==
    {Dict({}),
     Dict({[key |-> "min_genes", value |-> PyInt(200)]}),
     Dict({[key |-> "genes", value |-> PyList(<<1, 2, 3, 4, 5, 6>>)],
           [key |-> "n_pcs", value |-> PyInt(12)]})}

LogToolUsageLiteral ==
    /\ Len(tool_usage_history) < MaxTools
    /\ \E tool_name \in ToolNames, parameters \in LiteralMaps,
          description \in {None, Str("Quality control")} :
           log_tool_usage(tool_name, parameters, description)

\* a caller asks for the summary; again says that its previous call was
\* the same request
GetTechnicalSummary ==
    /\ last' = [op |-> "get_technical_summary", ret |-> get_technical_summary,
                again |-> last.op = "get_technical_summary"]
    /\ UNCHANGED <<storeVars, messages, metadata, session_id, stream, files, heap,
                   parked, threads, events, response>>

NextSummary == SetDataSmall \/ LogToolUsageLiteral \/ GetTechnicalSummary

SpecSummary == Init /\ [][NextSummary]_vars

(***************************************************************************)
(* The displayable-content filter over node outputs of up to MaxNodeMsgs   *)
(* messages                                                                *)
(***************************************************************************)
NodeMessages ==
    {HumanMessage(<<"h", "i">>), AIMessage(<<"o", "k">>), AIMessage(<<"n", "o">>),
     AIMessage(<<>>)}

FieldValues == {<<>>, <<"x">>}

ContentInputs ==
    {NotADict}
        \cup {NodeDict(msgs, a, n, d) : msgs \in SeqsUpTo(NodeMessages, MaxNodeMsgs),
                                        a \in FieldValues, n \in FieldValues,
                                        d \in FieldValues}

ExtractEventContent ==
    /\ \E node_output \in ContentInputs :
           last' = [op |-> "_extract_event_content", node_output |-> node_output,
                    ret |-> _extract_event_content(node_output)]
    /\ UNCHANGED <<storeVars, messages, metadata, session_id, stream, files, heap,
                   parked, threads, events, response>>

NextContent == ExtractEventContent

SpecContent == Init /\ [][NextContent]_vars

(***************************************************************************)
(* Saving to the workspace from stores with and without a dataset,         *)
(* metadata, plots and logs, with up to two writes failing in a call       *)
(***************************************************************************)
SetDataForSave ==
    \E data \in {None, DataFrame(1, <<Column("float64", FALSE)>>)},
       md \in {None, Dict({[key |-> "organism", vkind |-> "str"]})} :
        /\ IF SetDataRaises(data) THEN TRUE ELSE Len(processing_log) < 1
        /\ set_data(data, md, "ok")

\* the writes of the save operations that can fail
SaveFaults ==
    {Fault(op, 0) : op \in {"data_csv", "data_metadata", "log"}}
        \cup {Fault(op, i) : op \in {"html", "png"}, i \in 1..MaxExportPlots}

\* the exploration follows saves into a workspace that holds no file yet
SavePlotsToWorkspace ==
    /\ files = {}
    /\ \E faults \in FaultSets(SaveFaults) : save_plots_to_workspace(faults)

SaveDataToWorkspace ==
    /\ files = {}
    /\ \E faults \in FaultSets(SaveFaults) : save_data_to_workspace(faults)

AutoSaveState ==
    /\ files = {}
    /\ \E faults \in FaultSets(SaveFaults) : auto_save_state(faults)

NextSave ==
    \/ SetDataForSave
    \/ AddPlot
    \/ LogToolUsageOnce
    \/ SavePlotsToWorkspace
    \/ SaveDataToWorkspace
    \/ AutoSaveState

SpecSave == Init /\ [][NextSave]_vars

(***************************************************************************)
(* Two threads calling add_plot(figure) on one store, one statement of     *)
(* add_plot at a time. In mode "locked" the caller holds a lock around     *)
(* each call, in mode "free" it does not.                                  *)
(***************************************************************************)
Threads == {1, 2}

\* the plots a store holds after n successful add_plot calls without title
Registered(n) ==
    [k \in 1..n |-> [id |-> PlotId(k), figure |-> Figure, title |-> Str("Untitled"),
                     source |-> None]]

\* the store is one plot short of its maximum when the threads start
AlmostFull == 49

InitThreads ==
    /\ current_data = None
    /\ current_metadata = {}
    /\ adata = None
    /\ latest_plots = Registered(AlmostFull)
    /\ plot_counter = AlmostFull
    /\ processing_log = <<>>
    /\ tool_usage_history = <<>>
    /\ max_plots_history = 50
    /\ messages = <<>>
    /\ metadata = {"created_at", "session_id", "workspace"}
    /\ session_id = "session_1"
    /\ stream = NoStream
    /\ files = {}
    /\ heap = <<>>
    /\ parked = NoSession
    /\ threads \in {[mode |-> m, lock |-> 0, t |-> <<Idle, Idle>>] : m \in {"locked", "free"}}
    /\ events = <<>>
    /\ response = None
    /\ last = [op |-> "init"]
    /\ added = Registered(AlmostFull)
    /\ issued = [k \in 1..AlmostFull |-> PlotId(k)]

threadFrame == <<current_data, current_metadata, adata, processing_log,
                 tool_usage_history, max_plots_history, messages, metadata, session_id,
                 stream, files, heap, parked, events, response>>

\* a caller that starts the call without taking the lock
CallUnlocked(i) ==
    /\ threads.t[i].pc = "idle"
    /\ threads.t[i].calls < MaxThreadCalls
    /\ threads' = [threads EXCEPT !.t[i].pc = "increment",
                                  !.t[i].calls = threads.t[i].calls + 1]
    /\ UNCHANGED <<threadFrame, latest_plots, plot_counter, added, issued, last>>

\* thread i enters add_plot with a figure and no title; a caller that
\* serializes takes its lock first; the isinstance check passes
Call(i) ==
    /\ threads.t[i].pc = "idle"
    /\ threads.t[i].calls < MaxThreadCalls
    /\ IF threads.mode = "locked" THEN threads.lock = 0 ELSE TRUE
    /\ threads' = [threads EXCEPT !.t[i].pc = "increment",
                                  !.t[i].calls = threads.t[i].calls + 1,
                                  !.lock = IF threads.mode = "locked" THEN i ELSE 0]
    /\ UNCHANGED <<threadFrame, latest_plots, plot_counter, added, issued, last>>

\* self.plot_counter += 1
IncrementCounter(i) ==
    /\ threads.t[i].pc = "increment"
    /\ plot_counter' = plot_counter + 1
    /\ threads' = [threads EXCEPT !.t[i].pc = "read_id"]
    /\ UNCHANGED <<threadFrame, latest_plots, added, issued, last>>

\* plot_id = f"plot_{self.plot_counter}"
ReadPlotId(i) ==
    /\ threads.t[i].pc = "read_id"
    /\ threads' = [threads EXCEPT !.t[i].pc = "append",
                                  !.t[i].plot_id = PlotId(plot_counter)]
    /\ UNCHANGED <<threadFrame, latest_plots, plot_counter, added, issued, last>>

\* self.latest_plots.append(plot_entry)
AppendEntry(i) ==
    /\ threads.t[i].pc = "append"
    /\ LET plot_entry == [id |-> threads.t[i].plot_id, figure |-> Figure,
                          title |-> Str("Untitled"), source |-> None]
       IN  /\ latest_plots' = Append(latest_plots, plot_entry)
           /\ added' = Append(added, plot_entry)
           /\ issued' = Append(issued, threads.t[i].plot_id)
    /\ threads' = [threads EXCEPT !.t[i].pc = "check"]
    /\ UNCHANGED <<threadFrame, plot_counter, last>>

\* return plot_id, after which a caller that serializes releases its lock
Return(i) ==
    /\ threads' = [threads EXCEPT !.t[i].pc = "idle",
                                  !.lock = IF threads.lock = i THEN 0 ELSE threads.lock]
    /\ last' = [op |-> "add_plot", plot |-> Figure, ret |-> threads.t[i].plot_id]

\* if len(self.latest_plots) > self.max_plots_history: not so, the call
\* returns
CheckLength(i) ==
    /\ threads.t[i].pc = "check"
    /\ IF Len(latest_plots) > max_plots_history
       THEN /\ threads' = [threads EXCEPT !.t[i].pc = "evict"]
            /\ UNCHANGED last
       ELSE Return(i)
    /\ UNCHANGED <<threadFrame, latest_plots, plot_counter, added, issued>>

\* self.latest_plots.pop(0), and the call returns
EvictOldest(i) ==
    /\ threads.t[i].pc = "evict"
    /\ latest_plots' = Pop0(latest_plots)
    /\ Return(i)
    /\ UNCHANGED <<threadFrame, plot_counter, added, issued>>

NextThreads ==
    \E i \in Threads :
        \/ Call(i)
        \/ IncrementCounter(i)
        \/ ReadPlotId(i)
        \/ AppendEntry(i)
        \/ CheckLength(i)
        \/ EvictOldest(i)

SpecThreads == InitThreads /\ [][NextThreads]_vars

(***************************************************************************)
(* Properties of the dataset operations (checked under Spec)               *)
(***************************************************************************)
InvalidArg(arg) ==
    IF arg.kind # "DataFrame" THEN TRUE
    ELSE IF arg.shape[1] = 0 THEN TRUE
    ELSE arg.shape[2] = 0

\* C1: set_data with None, a non-tabular value, a zero-row or a zero-column
\* table raises to the caller, and has_data() is false in the state that
\* follows, whatever the store held before.
C1_InvalidDataRaisesAndClears ==
    (last.op = "set_data" /\ InvalidArg(last.arg))
        => (last.raised /\ ~has_data)

\* a zero-row table was rejected by a store that held a valid dataset
C1_Witness ==
    /\ last.op = "set_data"
    /\ last.raised
    /\ last.had_data
    /\ last.arg.kind = "DataFrame"
    /\ last.arg.shape = <<0, 1>>

\* C2: for every table with rows > 0 and columns > 0, after set_data returns
\* has_data() is true and get_data_summary().shape is the input's shape.
C2_ValidDataIsStored ==
    (last.op = "set_data" /\ ~InvalidArg(last.arg))
        => /\ ~last.raised
           /\ has_data
           /\ get_data_summary.status = "Data loaded"
           /\ get_data_summary.shape = last.arg.shape

\* a 2 x 1 table replaced a dataset of another shape
C2_Witness ==
    /\ last.op = "set_data"
    /\ ~last.raised
    /\ last.had_data
    /\ last.arg.shape = <<2, 1>>
    /\ shape(current_data) = <<2, 1>>
    /\ Len(processing_log) = 2
    /\ processing_log[1] # processing_log[2]

(***************************************************************************)
(* Properties of the plot collection (checked under SpecPlots)             *)
(***************************************************************************)
\* int(s) of a digit sequence
RECURSIVE DigitsValue(_)
DigitsValue(ds) ==
    IF Len(ds) = 0 THEN 0
    ELSE 10 * DigitsValue(SubSeq(ds, 1, Len(ds) - 1)) + ds[Len(ds)]

\* the number a plot id carries after "plot_"
IdNum(id) == DigitsValue(id.digits)

Min(a, b) == IF a < b THEN a ELSE b

\* C3: in every reachable state the number of retained plots is at most the
\* configured maximum, 50.
C3_PlotCountBounded ==
    /\ max_plots_history = 50
    /\ Len(latest_plots) <= max_plots_history

\* the collection is full and has already evicted
C3_Witness ==
    /\ Len(latest_plots) = max_plots_history
    /\ Len(added) > max_plots_history

\* C4: after k successful add_plot calls since the last clear_plots the
\* retained plots are the min(k, max) most recently added ones in insertion
\* order; once more than max were added the first-added is absent, and
\* get_latest_plots(1) is the last-added.
C4_FifoEviction ==
    LET k == Len(added)
        kept == Min(k, max_plots_history)
    IN  /\ latest_plots = SubSeq(added, k - kept + 1, k)
        /\ k > max_plots_history => get_plot_by_id(added[1].id) = None
        /\ k > 0 => get_latest_plots(PyInt(1)) = <<added[k]>>

\* 51 plots were added to a store of capacity 50 with no clear in between
C4_Witness ==
    /\ Len(added) = max_plots_history + 1
    /\ Len(latest_plots) = max_plots_history
    /\ last.op = "add_plot"
    /\ last.ret # None

\* C5: ids are unique and strictly increasing over the life of the store,
\* across evictions and clear_plots, and the retained plots carry pairwise
\* distinct ids in increasing order.
C5_IdsIncreasing ==
    /\ \A i \in 1..(Len(issued) - 1) : IdNum(issued[i]) < IdNum(issued[i + 1])
    /\ Cardinality({issued[i] : i \in DOMAIN issued}) = Len(issued)
    /\ \A i \in 1..(Len(latest_plots) - 1) :
           IdNum(latest_plots[i].id) < IdNum(latest_plots[i + 1].id)
    /\ Cardinality({latest_plots[i].id : i \in DOMAIN latest_plots}) = Len(latest_plots)
    /\ {latest_plots[i].id : i \in DOMAIN latest_plots} \subseteq {issued[i] : i \in DOMAIN issued}

\* plots were added after an eviction and a clear_plots
C5_Witness ==
    /\ Len(issued) > max_plots_history
    /\ Len(added) < Len(issued)
    /\ Len(latest_plots) > 0
    /\ Len(latest_plots) = Len(added)

(***************************************************************************)
(* Properties of the response extraction (checked under SpecExtract)       *)
(***************************************************************************)
HasAssistantMessage(ev) ==
    \E k \in DOMAIN ev.messages : ev.messages[k].role = "ai"

\* the text of the last assistant-authored message of an event that has one
LastAssistantText(ev) ==
    LET k == CHOOSE n \in DOMAIN ev.messages :
                 /\ ev.messages[n].role = "ai"
                 /\ \A m \in DOMAIN ev.messages : m > n => ev.messages[m].role # "ai"
    IN  ev.messages[k].content

TaskResultsWithAssistant ==
    {i \in DOMAIN events : events[i].type = "task_result" /\ HasAssistantMessage(events[i])}

\* the most recent task_result event that holds an assistant message
MostRecentTaskResult ==
    events[CHOOSE i \in TaskResultsWithAssistant :
               \A j \in TaskResultsWithAssistant : j <= i]

Extracted == last.op = "_extract_response"

\* C6: when some task_result event holds an assistant message that answers,
\* the returned text is that of an assistant message of a task_result
\* event, wherever the checkpoint events stand.
C6_TaskResultPriority ==
    (/\ Extracted
     /\ \E i \in DOMAIN events :
            /\ events[i].type = "task_result"
            /\ \E k \in DOMAIN events[i].messages : Answers(events[i].messages[k]))
        => \E i \in DOMAIN events :
               /\ events[i].type = "task_result"
               /\ \E k \in DOMAIN events[i].messages :
                      /\ events[i].messages[k].role = "ai"
                      /\ response \in {events[i].messages[k].content,
                                       strip(events[i].messages[k].content)}

\* C7: on a trace of task_result events, the text of the last assistant
\* message of the most recent task_result event that has one is returned
\* verbatim, never trimmed and never skipped.
C7_ReturnsVerbatim ==
    (/\ Extracted
     /\ \A i \in DOMAIN events : events[i].type # "checkpoint"
     /\ TaskResultsWithAssistant # {})
        => response = LastAssistantText(MostRecentTaskResult)

\* C8: when the last assistant message of the most recent task_result event
\* has the empty string as content, extract returns "".
C8_EmptyAnswerReturned ==
    (/\ Extracted
     /\ \E i \in DOMAIN events :
            /\ events[i].type = "task_result"
            /\ \A j \in DOMAIN events : j > i => events[j].type # "task_result"
            /\ HasAssistantMessage(events[i])
            /\ LastAssistantText(events[i]) = <<>>)
        => response = <<>>

\* C9: the sentinel is returned exactly when no task_result or checkpoint
\* event holds an assistant-authored message.
C9_SentinelIffNoAssistant ==
    Extracted =>
        ((response = Sentinel)
            <=> ~\E i \in DOMAIN events :
                    /\ events[i].type \in {"task_result", "checkpoint"}
                    /\ HasAssistantMessage(events[i]))

(***************************************************************************)
(* Properties of the non-streaming turn (checked under SpecClient)         *)
(***************************************************************************)
SuccessfulQuery == last.op = "query" /\ last.result.success

\* C10 as stated: every successful query appends the user message and then
\* an assistant message with the extracted response, whatever the response.
C10_AlwaysTwoMessages ==
    SuccessfulQuery =>
        messages = last.before \o <<HumanMessage(last.user_input),
                                    AIMessage(last.result.response)>>

\* C10: a successful query appends the user message and then, when the
\* extracted response is not the empty string, an assistant message with
\* that response; an empty response appends the user message alone.
C10_UserThenNonEmptyAnswer ==
    SuccessfulQuery =>
        /\ last.result.response # <<>> =>
               messages = last.before \o <<HumanMessage(last.user_input),
                                           AIMessage(last.result.response)>>
        /\ last.result.response = <<>> =>
               messages = last.before \o <<HumanMessage(last.user_input)>>

\* a second turn answered with the empty string, and one with the sentinel
C10_Witness ==
    /\ SuccessfulQuery
    /\ Len(last.before) = 2
    /\ last.before[2].content = Sentinel
    /\ last.result.response = <<>>
    /\ Len(messages) = 3

\* C11: a non-streaming query never raises to its caller: when graph.stream
\* or _extract_response raises in the turn, query returns success = false,
\* the text of the error and "I encountered an error: <error>"; a turn in
\* which nothing raises succeeds, also right after a failed one.
C11_FailureIsReported ==
    last.op = "query" =>
        /\ ~last.raised
        /\ IF last.fault = "none" THEN last.result.success
           ELSE /\ last.result.success = FALSE
                /\ last.result.error = last.error
                /\ last.result.response = <<"I encountered an error: ", last.error>>

\* the extraction raised in one turn, and the next query on the session
\* succeeded
C11_Witness ==
    /\ last.op = "query"
    /\ last.after = "extract"
    /\ ~last.raised
    /\ last.result.success
    /\ Len(last.before) = 1

\* the latest min(5, count) entries of the plot collection, oldest first
LatestUpTo5 ==
    SubSeq(latest_plots, Len(latest_plots) - Min(5, Len(latest_plots)) + 1,
           Len(latest_plots))

\* C12 as stated: the plots field of every successful non-streaming result
\* is the latest min(5, count) plots of the store in insertion order,
\* whether or not a dataset is loaded.
C12_LatestPlotsWhateverData ==
    SuccessfulQuery => last.result.plots = LatestUpTo5

\* C12: the plots field of a successful non-streaming result is the latest
\* min(5, count) plots in insertion order when a dataset is loaded, and the
\* empty list when none is loaded, whatever plots are registered.
C12_LatestPlotsWhenDataLoaded ==
    SuccessfulQuery =>
        last.result.plots = IF has_data THEN LatestUpTo5 ELSE <<>>

\* a turn succeeded over a loaded dataset and more than five plots
C12_Witness ==
    /\ SuccessfulQuery
    /\ has_data
    /\ Len(latest_plots) > 5
    /\ Len(last.result.plots) = 5

\* C16: reset() empties the conversation history and stamps the reset time
\* in the session metadata, and leaves the dataset, the derived matrix, the
\* dataset metadata, the plot collection, the plot counter, the processing
\* log, the tool-usage history and the session id as they were.
C16_ResetKeepsStore ==
    [][(last'.op = "reset") =>
          /\ messages' = <<>>
          /\ "reset_at" \in metadata'
          /\ UNCHANGED <<current_data, adata, current_metadata, latest_plots,
                         plot_counter, processing_log, tool_usage_history,
                         session_id>>]_vars

\* a session with messages, a dataset and a plot was reset
C16_Witness ==
    /\ last.op = "reset"
    /\ last.before # <<>>
    /\ messages = <<>>
    /\ "reset_at" \in metadata
    /\ has_data
    /\ latest_plots # <<>>
    /\ processing_log # <<>>

(***************************************************************************)
(* Properties of the streaming query (checked under SpecStream)            *)
(***************************************************************************)
StreamRecords == SelectSeq(stream.records, LAMBDA r : r.type = "stream")

TerminalPositions ==
    {i \in 1..Len(stream.records) : stream.records[i].type \in {"complete", "error"}}

BadPositions(run) == {i \in 1..Len(run.events) : run.events[i].kind # "dict"}

EndsNormally(run) == ~run.raises /\ BadPositions(run) = {}

\* the number of requests the engine has received when its failure is met
AskedAtFailure(run) ==
    IF BadPositions(run) # {}
    THEN CHOOSE i \in BadPositions(run) : \A j \in BadPositions(run) : i <= j
    ELSE Len(run.events) + 1

\* C13: a streaming query that is consumed to the end yields exactly one
\* terminal record, as its last record: the completion record when the
\* engine ended normally, the error record when it failed; no record
\* follows a terminal one, the engine is not asked again after its failure,
\* and no exception leaves the generator.
C13_OneTerminalRecord ==
    stream.pc # "none" =>
        /\ ~stream.raised
        /\ Cardinality(TerminalPositions) <= 1
        /\ \A i \in TerminalPositions : i = Len(stream.records)
        /\ stream.asked <= stream.pulled + 1
        /\ (stream.pc = "exhausted") =>
               /\ TerminalPositions = {Len(stream.records)}
               /\ stream.records # <<>>
               /\ stream.records[Len(stream.records)].type =
                      IF EndsNormally(stream.run) THEN "complete" ELSE "error"
        /\ \A i \in TerminalPositions :
               stream.records[i].type = "error" =>
                   stream.asked = AskedAtFailure(stream.run)

\* a stream was consumed to the end: its only terminal record is the error
\* record of an event that could not be read, and the engine's later event
\* was not asked for
C13_Witness ==
    /\ stream.pc = "exhausted"
    /\ stream.records # <<>>
    /\ stream.records[Len(stream.records)].type = "error"
    /\ stream.asked < Len(stream.run.events)

RECURSIVE ItemsOfFirst(_, _)
ItemsOfFirst(evs, k) ==
    IF k = 0 THEN <<>> ELSE ItemsOfFirst(evs, k - 1) \o evs[k].items

\* the per-node outputs the generator has handled so far, in order
Handled ==
    IF stream.pulled = 0 THEN <<>>
    ELSE ItemsOfFirst(stream.run.events, stream.pulled - 1)
            \o SubSeq(stream.run.events[stream.pulled].items, 1, stream.node)

ShownItems(items) ==
    SelectSeq(items, LAMBDA it : Displayable(_extract_event_content(it.output)))

\* C14: the stream records yielded are, in order, those of the per-node
\* outputs for which _extract_event_content returns non-empty content, one
\* record for each of them and none for the others; every stream record
\* carries non-empty content.
C14_StreamRecordIffContent ==
    stream.pc # "none" =>
        /\ StreamRecords =
               [i \in 1..Len(ShownItems(Handled)) |->
                   StreamRecord(ShownItems(Handled)[i].node,
                                _extract_event_content(ShownItems(Handled)[i].output))]
        /\ \A i \in 1..Len(StreamRecords) : Displayable(StreamRecords[i].content)

\* a consumed stream in which one node output was shown and another one
\* suppressed
C14_Witness ==
    /\ stream.pc = "exhausted"
    /\ Len(StreamRecords) = 1
    /\ Len(Handled) = 2
    /\ StreamRecords[1].content = Content(<<"next", ":", " ", "a">>)

\* the number of stream records the first k events of the engine give
RecordsOfFirst(run, k) == Len(ShownItems(ItemsOfFirst(run.events, k)))

\* C15: streaming is pull-based: query(text, stream=True) does not ask the
\* engine for anything; the engine is asked for its (k+1)-th event only once
\* the consumer has requested more records than the first k events give;
\* no record, terminal ones included, exists that the consumer has not
\* requested.
C15_PullBased ==
    stream.pc # "none" =>
        /\ (stream.pc = "created") => (stream.asked = 0 /\ stream.records = <<>>)
        /\ Len(stream.records) <= stream.requests
        /\ \A k \in 0..Len(stream.run.events) :
               (stream.asked >= k + 1) =>
                   stream.requests > RecordsOfFirst(stream.run, k)

\* the consumer took the two records of the first event and stopped: the
\* engine's second event has not been asked for
C15_Witness ==
    /\ stream.pc = "suspended"
    /\ stream.requests = 2
    /\ Len(stream.records) = 2
    /\ stream.asked = 1
    /\ Len(stream.run.events) = 2

(***************************************************************************)
(* Properties of the exports (checked under SpecExport)                    *)
(***************************************************************************)
\* the tiers of export_session that fail when they are attempted with
\* these faults, in the store as it is
FailingTiers(faults) ==
    (IF has_data /\ PackageRaises(faults) THEN {"package"} ELSE {})
        \cup (IF Fault("snapshot", 0) \in faults THEN {"snapshot"} ELSE {})
        \cup (IF Fault("minimal", 0) \in faults THEN {"minimal"} ELSE {})

Written(path) == \E f \in files : f.path = path

\* C17: export_session() does not raise and returns the path of a file it
\* has written, in every store state, when at most one of its tiers
\* (package, session snapshot, minimal JSON) fails.
C17_SingleTierFailureStillExports ==
    (last.op = "export_session" /\ Cardinality(FailingTiers(last.faults)) <= 1)
        => (~last.raised /\ Written(last.ret))

\* the package could not be made for a loaded store and the minimal JSON
\* was written and returned
C17_Witness ==
    /\ last.op = "export_session"
    /\ FailingTiers(last.faults) = {"package"}
    /\ ~last.raised
    /\ last.ret = Path("workspace", "session_basic.json")
    /\ Written(last.ret)

\* C18 as stated: the tiers are tried in the order package, session
\* snapshot, minimal JSON: when the store holds valid data and the package
\* fails, the session snapshot is attempted next, and the minimal JSON only
\* after the snapshot failed too.
C18_SnapshotAfterFailedPackage ==
    (last.op = "export_session" /\ last.had_data /\ PackageRaises(last.faults))
        => /\ Len(last.tiers) >= 2
           /\ last.tiers[2] = "snapshot"
           /\ ("minimal" \in {last.tiers[i] : i \in 1..Len(last.tiers)})
                  => Fault("snapshot", 0) \in last.faults

\* C18: export_session() attempts one first tier, the package when the
\* store holds valid data and the session snapshot when it does not, and
\* the minimal JSON next if and only if that tier failed; after a failed
\* package the session snapshot is not attempted.
C18_FirstTierThenMinimal ==
    last.op = "export_session" =>
        last.tiers =
            IF last.had_data
            THEN (IF PackageRaises(last.faults) THEN <<"package", "minimal">>
                  ELSE <<"package">>)
            ELSE (IF Fault("snapshot", 0) \in last.faults THEN <<"snapshot", "minimal">>
                  ELSE <<"snapshot">>)

\* the package failed for a loaded store whose snapshot could have been
\* written: the minimal JSON was written straight away
C18_Witness ==
    /\ last.op = "export_session"
    /\ last.had_data
    /\ PackageRaises(last.faults)
    /\ Fault("snapshot", 0) \notin last.faults
    /\ last.tiers = <<"package", "minimal">>
    /\ \E f \in files : f.content.kind = "minimal"

\* C19: create_data_package called while has_data() is false fails with an
\* error and does nothing else: no file is written and the dataset, the
\* derived matrix, the metadata, the plots, the plot counter and the logs
\* are as before.
C19_NoDataNoPackage ==
    [][(last'.op = "create_data_package" /\ ~has_data) =>
          /\ last'.raised
          /\ UNCHANGED <<files, current_data, adata, current_metadata, latest_plots,
                         plot_counter, processing_log, tool_usage_history>>]_vars

\* a package was asked of a store that holds a plot and no dataset
C19_Witness ==
    /\ last.op = "create_data_package"
    /\ ~last.had_data
    /\ last.raised
    /\ latest_plots # <<>>
    /\ files = {}

\* the writes C20 names: the derived matrix in its native form, its
\* tabular fallback, a plot's interactive rendering, static rendering and
\* metadata file
IsArtifactFault(f) == f.op \in {"h5ad", "csv", "html", "png", "info"}

\* the failing writes all belong to one artifact: the derived matrix or one
\* plot
SingleArtifact(faults) ==
    \/ \A f \in faults : f.op \in {"h5ad", "csv"}
    \/ \E i \in 1..Len(latest_plots) :
           \A f \in faults : f.op \in {"html", "png", "info"} /\ f.plot = i

\* C20: when has_data() is true, create_data_package completes and returns
\* the path of the archive whatever single artifact fails to be written:
\* the derived matrix (native export, tabular fallback) or a plot
\* (interactive rendering, static rendering, metadata file).
C20_ArtifactFailureNeverAborts ==
    (/\ last.op = "create_data_package"
     /\ last.had_data
     /\ \A f \in last.faults : IsArtifactFault(f)
     /\ SingleArtifact(last.faults))
        => (~last.raised /\ Written(last.ret))

\* the archive the last create_data_package returned
ReturnedArchive == CHOOSE f \in files : f.path = last.ret

\* the stored plots all of whose writes succeeded in the last call
ExportedPlots ==
    {i \in 1..Len(latest_plots) :
        \A op \in {"html", "png", "info"} : Fault(op, i) \notin last.faults}

\* listing (index.json or README.md) names exactly the plots of positions
\* ps, once each, in the order of the store
ListsInOrder(listing, ps) ==
    /\ Len(listing) = Cardinality(ps)
    /\ \A i \in ps : \E k \in 1..Len(listing) : listing[k].id = latest_plots[i].id
    /\ \A k1, k2 \in 1..Len(listing) :
           k1 < k2 =>
               \E i1, i2 \in ps :
                   /\ i1 < i2
                   /\ listing[k1].id = latest_plots[i1].id
                   /\ listing[k2].id = latest_plots[i2].id

\* C21: plots/index.json and plots/README.md of a package list exactly the
\* stored plots whose export succeeded, once each and in insertion order; a
\* plot one of whose writes threw is in neither, every other plot has its
\* two renderings in the archive, next to technical_summary.md and
\* raw_data.csv.
C21_IndexesListExportedPlots ==
    (last.op = "create_data_package" /\ ~last.raised) =>
        /\ ListsInOrder(ReturnedArchive.content.index, ExportedPlots)
        /\ ListsInOrder(ReturnedArchive.content.readme, ExportedPlots)
        /\ \A i \in ExportedPlots :
               /\ Staged("plots", filename_base(latest_plots[i]), ".html")
                      \in ReturnedArchive.content.entries
               /\ Staged("plots", filename_base(latest_plots[i]), ".png")
                      \in ReturnedArchive.content.entries
        /\ Staged("", None, "technical_summary.md") \in ReturnedArchive.content.entries
        /\ Staged("", None, "raw_data.csv") \in ReturnedArchive.content.entries

\* a package of two plots was made while the static rendering of the first
\* one threw: the indexes list the second plot only
C21_Witness ==
    /\ last.op = "create_data_package"
    /\ ~last.raised
    /\ Len(latest_plots) = 2
    /\ last.faults = {Fault("png", 1)}
    /\ Len(ReturnedArchive.content.index) = 1
    /\ ReturnedArchive.content.index[1].id = latest_plots[2].id
    /\ ReturnedArchive.content.readme[1].id = latest_plots[2].id

\* C22, C23: a step that is a call of log_tool_usage (the caller's own steps
\* change its dict and are no call)
IsLogStep == last'.op = "log_tool_usage" /\ heap' = heap

IsPrefix(s, t) == Len(s) <= Len(t) /\ SubSeq(t, 1, Len(s)) = s

\* C22: the tool usage history is append-only. A call of log_tool_usage
\* appends exactly the record of the call at the end; every other step
\* (set_data that succeeds or fails, add_plot, clear_plots, reset, query,
\* create_data_package, export_session, the caller's own steps) leaves the
\* history as it is, so the history before a step is a prefix of the history
\* after it and the records stand in call order.
C22_HistoryAppendOnly ==
    [][/\ IsPrefix(tool_usage_history, tool_usage_history')
       /\ IF IsLogStep
          THEN tool_usage_history' = Append(tool_usage_history, last'.entry)
          ELSE tool_usage_history' = tool_usage_history]_vars

\* two different records in the history, in the order of their calls, seen
\* after an export of the session
C22_Witness ==
    /\ Len(tool_usage_history) = 2
    /\ tool_usage_history[1].tool = "qc"
    /\ tool_usage_history[2].tool = "cluster"
    /\ last.op = "export_session"
    /\ ~last.raised

\* C23: after log_tool_usage returned, the parameters of the record it
\* stored are the ones given at the call, whatever the caller does to its
\* dict afterwards, in the history and in get_technical_summary.
C23_StoredParametersAsGiven ==
    (last.op = "log_tool_usage") =>
        /\ Deref(tool_usage_history[Len(tool_usage_history)].parameters) = last.given
        /\ ToolUsageBlocks[Len(tool_usage_history)].parameters
               = {[key |-> it.key, str |-> param_str(it.value)] : it \in last.given.items}

\* the k most recently added of the retained plots, in insertion order
MostRecent(k) ==
    SubSeq(latest_plots, Len(latest_plots) - k + 1, Len(latest_plots))

\* C24: get_latest_plots(n) with an integer n >= 0 returns exactly the
\* min(n, c) most recently added of the c retained plots in insertion order,
\* for n = 0 and for n > c too; with n omitted it returns all c.
C24_LatestMinOfNAndCount ==
    (last.op = "get_latest_plots") =>
        last.ret = IF last.n = None THEN latest_plots
                   ELSE MostRecent(Min(last.n.v, Len(latest_plots)))

\* the current table is set, is a DataFrame, and has rows and columns
ValidTable ==
    IF current_data = None THEN FALSE
    ELSE IF current_data.kind # "DataFrame" THEN FALSE
    ELSE current_data.nrows > 0 /\ Len(current_data.columns) > 0

\* C25: has_data() is true exactly when a current table is set and has
\* rows > 0 and columns > 0, whatever the derived matrix is: after a
\* set_data it is true exactly when the call did not raise, whether the
\* derived matrix was built, replaced by the placeholder or left null.
C25_HasDataIffValidTable ==
    /\ has_data <=> ValidTable
    /\ (last.op = "set_data") => (has_data <=> ~last.raised)

\* a dataset is loaded while the derived matrix is the 2x2 placeholder
C25_Witness ==
    /\ has_data
    /\ shape(current_data) # <<2, 2>>
    /\ IF adata = None THEN FALSE ELSE adata.X = "zeros"

\* C26: after every successful set_data the derived matrix is not null: it
\* is the projection of the new dataset, with the dataset's dimensions, or
\* the placeholder.
C26_DerivedMatrixNeverNull ==
    (last.op = "set_data" /\ ~last.raised) =>
        IF adata = None THEN FALSE
        ELSE \/ adata.X = "values" /\ <<adata.n_obs, adata.n_vars>> = shape(current_data)
             \/ adata.X = "zeros"

SessionState(session) ==
    <<session.messages, session.current_data, session.latest_plots,
      session.plot_counter, session.tool_usage_history>>

\* C28: sessions are independent. An operation of one session (query,
\* reset, set_data, add_plot, clear_plots, log_tool_usage) leaves the other
\* session as it is, and when the caller turns to the other session it
\* finds the conversation history, dataset, plot collection, plot id
\* counter and tool usage history that session had when it was left.
C28_SessionsIndependent ==
    [][IF last'.op = "switch" /\ session_id' # session_id
       THEN /\ SessionState(parked') = SessionState(Running)
            /\ IF parked.id = "none"
               THEN SessionState(Running') = SessionState(NewSession("session_2"))
               ELSE SessionState(Running') = SessionState(parked)
       ELSE parked' = parked]_vars

\* both sessions have worked: the one that runs has just registered a plot
\* and holds no conversation, the other holds a conversation and no plot
C28_Witness ==
    IF parked.id = "none" THEN FALSE
    ELSE /\ last.op = "add_plot"
         /\ latest_plots # <<>>
         /\ messages = <<>>
         /\ parked.latest_plots = <<>>
         /\ parked.messages # <<>>
         /\ parked.tool_usage_history # tool_usage_history

\* the places read_file looks at for an exact name, in the order of C29
SearchOrder == <<"root", "data", "plots", "exports">>

ExactHits(name) == {k \in DOMAIN SearchOrder : Exists(Path(SearchOrder[k], name))}

FirstOf(S) == CHOOSE k \in S : \A j \in S : k <= j

\* the case-insensitive matches of a name in the subdirectories
LooseHits(name) ==
    {f \in files : f.path.dir \in {"data", "plots", "exports"}
                    /\ lower(f.path.name) = lower(name)}

\* what reading one file gives: its text, or the message of the failed read
Outcome(f) == ReadOrError(f, "Error reading file: ")

\* C29: read_file(name) for a relative name returns the first hit of a
\* fixed order: the exact name in the workspace root, then in data/, then
\* in plots/, then in exports/, and only when the exact name is at none of
\* these a case-insensitive match in the subdirectories; a file found at an
\* earlier step wins over any file that matches at a later step.
C29_FirstHitInFixedOrder ==
    (last.op = "read_file" /\ ~last.filename.absolute) =>
        LET name == last.filename.name
        IN  IF ExactHits(name) # {}
            THEN last.ret = Outcome(FileAt(Path(SearchOrder[FirstOf(ExactHits(name))], name)))
            ELSE LooseHits(name) # {} => last.ret \in {Outcome(f) : f \in LooseHits(name)}

\* the exact name is in exports/ while data/, which is searched earlier,
\* holds the name in another case: the file of exports/ is returned
C29_Witness ==
    /\ last.op = "read_file"
    /\ last.filename = Relative(<<"q", "c">>)
    /\ Exists(Path("data", <<"Q", "c">>))
    /\ Exists(Path("exports", <<"q", "c">>))
    /\ last.ret = Str(TextOf("exports", <<"q", "c">>))

\* the requested file is at none of the places read_file searches
FoundNowhere(filename) ==
    IF filename.absolute THEN ~Exists(Path(filename.dir, filename.name))
    ELSE ExactHits(filename.name) = {} /\ LooseHits(filename.name) = {}

\* C30: read_file returns None whenever the requested file is found at none
\* of its search locations, and a string it returns is always the content
\* of an existing file.
C30_NoneWhenNotFound ==
    (last.op = "read_file") =>
        /\ FoundNowhere(last.filename) => last.ret = None
        /\ last.ret # None => \E f \in files : last.ret = Str(f.content)

\* the headings of a summary, in the order of the text
Headings(doc) == [i \in DOMAIN doc |-> doc[i].heading]

\* the headings C31 expects for the store as it is
ExpectedHeadings ==
    <<"# Technical Summary">>
        \o (IF ValidTable THEN <<"## Data Information">> ELSE <<>>)
        \o (IF processing_log # <<>> THEN <<"## Processing Log">> ELSE <<>>)
        \o (IF tool_usage_history # <<>> THEN <<"## Tool Usage History">> ELSE <<>>)

\* the blocks of the tool usage section are the logged records, one block
\* each, numbered from 1 in insertion order, with tool name and parameters
ListsEveryRecord(blocks) ==
    /\ Len(blocks) = Len(tool_usage_history)
    /\ \A i \in DOMAIN blocks :
           /\ DigitsValue(blocks[i].number) = i
           /\ blocks[i].tool = tool_usage_history[i].tool
           /\ {p.key : p \in blocks[i].parameters}
                  = {it.key : it \in tool_usage_history[i].parameters.items}
           /\ \A it \in tool_usage_history[i].parameters.items :
                  \E p \in blocks[i].parameters :
                      /\ p.key = it.key
                      /\ IF it.value.kind = "int"
                         THEN DigitsValue(p.str.digits) = it.value.v
                         ELSE /\ \A k \in DOMAIN p.str.items :
                                     DigitsValue(p.str.items[k]) = it.value.elems[k]
                              /\ IF p.str.text = "abbreviated"
                                 THEN DigitsValue(p.str.length) = Len(it.value.elems)
                                 ELSE Len(p.str.items) = Len(it.value.elems)

\* C31: get_technical_summary() lays out its sections in the fixed order
\* data information (present exactly when has_data()), processing log, tool
\* usage history; the tool usage section holds every logged record exactly
\* once, numbered in insertion order, with its tool name and parameters; a
\* second call on the same store state returns the same text.
C31_SummaryLayout ==
    [][(last'.op = "get_technical_summary") =>
           /\ Headings(last'.ret) = ExpectedHeadings
           /\ tool_usage_history # <<>> =>
                  ListsEveryRecord(last'.ret[Len(last'.ret)].blocks)
           /\ (last.op = "get_technical_summary") => last'.ret = last.ret]_vars

\* the summary was asked twice of a store with a dataset and two logged
\* tools, one of them with a list of more than five elements
C31_Witness ==
    /\ last.op = "get_technical_summary"
    /\ last.again
    /\ has_data
    /\ Len(tool_usage_history) = 2
    /\ tool_usage_history[1].tool # tool_usage_history[2].tool
    /\ \E it \in tool_usage_history[1].parameters.items : it.value.kind = "list"
    /\ Len(last.ret) = 4

\* the positions of the assistant-authored messages of a node output
AssistantPositions(msgs) == {i \in DOMAIN msgs : msgs[i].role = "ai"}

LastOf(S) == CHOOSE k \in S : \A j \in S : j <= k

\* "<field>: <value>" for the first non-empty field in the order
\* analysis_results, next, data_context; no content when none is set
FirstField(node_output) ==
    IF node_output.analysis_results # <<>>
    THEN Content(<<"analysis_results", ":", " ">> \o node_output.analysis_results)
    ELSE IF node_output.next # <<>>
         THEN Content(<<"next", ":", " ">> \o node_output.next)
    ELSE IF node_output.data_context # <<>>
         THEN Content(<<"data_context", ":", " ">> \o node_output.data_context)
    ELSE NoContent

\* C32: the displayable-content filter returns the text of the last
\* assistant-authored message of the node output whenever the output holds
\* an assistant-authored message, never that of an earlier one, and uses
\* the named result fields only when there is no assistant-authored message.
C32_LastAssistantElseFields ==
    (last.op = "_extract_event_content") =>
        IF last.node_output.kind # "dict" THEN last.ret = NoContent
        ELSE LET msgs == last.node_output.messages
             IN  IF AssistantPositions(msgs) # {}
                 THEN last.ret.chars = msgs[LastOf(AssistantPositions(msgs))].content
                 ELSE last.ret = FirstField(last.node_output)

\* two retained plots carry the same id
DuplicateIds ==
    \E i \in DOMAIN latest_plots : \E j \in DOMAIN latest_plots :
        i # j /\ latest_plots[i].id = latest_plots[j].id

\* C33: unserialized concurrent use of one store is unsafe. When the caller
\* serializes the add_plot calls of two threads, no state is reachable in
\* which two retained plots carry the same id; when the calls interleave
\* statement by statement without a lock, such a state is reachable (the
\* state C33_Witness describes).
C33_SerializedCallsKeepIdsUnique ==
    (threads.mode = "locked") => ~DuplicateIds

\* without a lock both threads incremented the counter before either read
\* it: two retained plots carry the same id
C33_Witness ==
    /\ threads.mode = "free"
    /\ DuplicateIds
    /\ threads.t[1].pc = "idle"
    /\ threads.t[2].pc = "idle"

\* C37: create_data_package is read-only on the store. Whether it
\* succeeds, skips plots or fails, the dataset, metadata, derived matrix,
\* plot collection, plot id counter, processing log and tool usage history
\* are the same after the call as before, and the bundle it wrote is
\* recorded in no in-memory state of the store or the client.
C37_PackageLeavesStoreAlone ==
    [][(last'.op = "create_data_package") =>
          UNCHANGED <<current_data, current_metadata, adata, latest_plots, plot_counter,
                      processing_log, tool_usage_history, max_plots_history, messages,
                      metadata, session_id>>]_vars

\* a package was written while one plot of two was skipped
C37_Witness ==
    /\ last.op = "create_data_package"
    /\ ~last.raised
    /\ Len(latest_plots) = 2
    /\ Len(ReturnedArchive.content.index) = 1
    /\ processing_log # <<>>

\* C38: an export package holds no file of a skipped plot: every
\* plots/<id>_<slug>.html, .png and _info.txt entry of the archive belongs
\* to a plot listed in plots/index.json.
C38_NoFileOfSkippedPlot ==
    (last.op = "create_data_package" /\ ~last.raised) =>
        \A e \in ReturnedArchive.content.entries :
            e.plot # None =>
                \E k \in DOMAIN ReturnedArchive.content.index :
                    ReturnedArchive.content.index[k].filename = e.plot

\* a file is in the workspace
Saved(path) == \E f \in files : f.path = path

\* C34: the workspace save operations are best-effort per step and never
\* raise. In save_plots_to_workspace a failed rendering of one plot keeps
\* neither the other plots nor that plot's interactive rendering, written
\* before, from being saved; save_data_to_workspace returns None instead of
\* raising when there is no data or a write fails; auto_save_state
\* completes and returns its list of saved items when any of its data, plot
\* or processing-log steps fails.
C34_SavesAreBestEffort ==
    /\ (last.op = "save_plots_to_workspace") =>
           /\ ~last.raised
           /\ \A i \in DOMAIN latest_plots :
                  Fault("html", i) \notin last.faults =>
                      /\ Saved(Path("plots", FileName(filename_base(latest_plots[i]), ".html")))
                      /\ Fault("png", i) \notin last.faults =>
                             Saved(Path("plots", FileName(filename_base(latest_plots[i]), ".png")))
    /\ (last.op = "save_data_to_workspace") =>
           /\ ~last.raised
           /\ (~last.had_data \/ Fault("data_csv", 0) \in last.faults) => last.ret = None
    /\ (last.op = "auto_save_state") => ~last.raised

(***************************************************************************)
(* Properties of the conversation history after failed and streamed turns  *)
(***************************************************************************)
\* C35: a failed non-streaming turn is not rolled back: after query(text)
\* returned success = false the history is the history before the call
\* followed by the user's message with content text and nothing else; no
\* assistant message and no error text is recorded for the turn.
C35_FailedTurnKeepsUserMessage ==
    (last.op = "query" /\ ~last.raised /\ ~last.result.success) =>
        /\ messages = Append(last.before, HumanMessage(last.user_input))
        /\ messages[Len(messages)].role = "human"

\* a turn failed on a session that already held a completed turn
C35_Witness ==
    /\ last.op = "query"
    /\ ~last.result.success
    /\ Len(last.before) = 2
    /\ Len(messages) = 3

\* C36: a streaming query records the user's side of the turn only:
\* query(text, stream=True) appends the user's message when it is called,
\* with the generator not yet started, and no request for a record changes
\* the history, up to and past the completion or error record; the history
\* of a streamed turn ends with the user's message.
C36_StreamedTurnRecordsUserOnly ==
    [][IF last'.op = "query_stream"
       THEN /\ messages' = Append(messages, HumanMessage(last'.user_input))
            /\ stream'.pc = "created"
            /\ stream'.asked = 0
            /\ stream'.records = <<>>
       ELSE /\ messages' = messages
            /\ Len(messages') > 0
            /\ messages'[Len(messages')].role = "human"]_vars

\* a stream with a stream record consumed past its completion record, the
\* history holding the user's message alone
C36_Witness ==
    /\ stream.pc = "exhausted"
    /\ Len(stream.records) = 2
    /\ stream.records[2].type = "complete"
    /\ messages = <<HumanMessage(<<"h", "i">>)>>

(***************************************************************************)
(* Dataset operations against plot and provenance operations (checked      *)
(* under SpecPlots)                                                        *)
(***************************************************************************)
\* C39: dataset operations and plot/provenance operations do not interfere:
\* set_data, raising or not, leaves the plot collection, the plot counter
\* and the tool-usage history as they were; a set_data that raises leaves
\* the processing log as it was and one that returns appends exactly one
\* line, with the rows and columns of the dataset now stored; add_plot,
\* clear_plots and log_tool_usage leave the dataset, its metadata, the
\* derived matrix and has_data() as they were.
C39_DatasetAndPlotsDoNotInterfere ==
    [][/\ (last'.op = "set_data") =>
              /\ latest_plots' = latest_plots
              /\ plot_counter' = plot_counter
              /\ tool_usage_history' = tool_usage_history
              /\ IF last'.raised
                 THEN processing_log' = processing_log
                 ELSE processing_log' =
                          Append(processing_log, [rows |-> shape(current_data')[1],
                                                  cols |-> shape(current_data')[2]])
       /\ (last'.op \in {"add_plot", "clear_plots", "log_tool_usage"}) =>
              /\ current_data' = current_data
              /\ current_metadata' = current_metadata
              /\ adata' = adata
              /\ has_data' = has_data]_vars

\* a dataset was loaded into a store that held plots and a tool-usage
\* record, and they are still there
C39_Witness ==
    /\ last.op = "set_data"
    /\ ~last.raised
    /\ Len(latest_plots) > 0
    /\ plot_counter > 0
    /\ Len(tool_usage_history) = 1
    /\ Len(processing_log) = 1

====
